------------------------ MODULE CellLifecycleProofs ------------------------
(***************************************************************************)
(* Proofs about CellLifecycle: for every number of cells and workers, what *)
(* a cell's count says is what refers to it, nothing refers to a cell that *)
(* was freed, cell_destroy's assertions hold for every cell that has       *)
(* loaded, no message is stranded in a closed cell, and the workers stop   *)
(* when at most the system cell is left.                                   *)
(*                                                                         *)
(* The argument.  A cell is in one place, the ring or the hands of one     *)
(* thread (Apart), so its Lua state and queue change under one thread at a *)
(* time but for sends and kills.  The counts are exact (RefAccounting), so *)
(* whatever still refers to a cell keeps its count above zero              *)
(* (Referenced); the thread that takes it to zero is the only one to mark  *)
(* it (Unreferenced), nothing takes it up again, and who destroys it finds *)
(* nothing that refers to it (Destroyed).  A cell that fails to load may   *)
(* have sent itself somewhere; but while it loads it has met nobody        *)
(* (Unshared), so what still refers to it when cell_new destroys it are    *)
(* messages to itself or to the system cell, and these are the only        *)
(* references an assertion can find.                                       *)
(*                                                                         *)
(* The invariant is kept conjunct by conjunct: each lemma whose name ends  *)
(* in Step takes one of them through every action.                         *)
(***************************************************************************)
EXTENDS CellLifecycle, FiniteSetTheorems, SequenceTheorems, TLAPS

\* The types, with the two counters still integers.
ThreadTypes ==
  /\ pc \in [Thread -> Location]
  /\ cur \in [Thread -> Cell \union {NoCell}]
  /\ new \in [Thread -> Cell \union {NoCell}]
  /\ found \in [Thread -> BOOLEAN]
  /\ zero \in [Thread -> Cell \union {NoCell}]
  /\ timer \in {"unborn", "ticking", "stopped"}

QueueTypes == mq \in [Cell -> Seq(Message)] /\ ring \in Seq(Cell)

StateTypes ==
  /\ alloc \subseteq Cell
  /\ L \in [Cell -> BOOLEAN]
  /\ close \in [Cell -> BOOLEAN] /\ quit \in [Cell -> BOOLEAN]
  /\ map \in [Cell -> SUBSET Cell] /\ dying \in [Cell -> SUBSET Cell]

CountTypes == ref \in [Cell -> Int] /\ leaked \in [Cell -> Nat] /\ total \in Int

\* What is at the head of a sequence, and after it.
LEMMA SeqHead ==
  ASSUME NEW S, NEW s \in Seq(S), s # <<>>
  PROVE  /\ Head(s) \in S /\ Tail(s) \in Seq(S)
         /\ 1 \in DOMAIN s /\ Head(s) = s[1]
         /\ \A i \in DOMAIN Tail(s) :
              i \in Nat /\ i + 1 # 1 /\ i + 1 \in DOMAIN s /\ Tail(s)[i] = s[i + 1]
         /\ \A i \in DOMAIN s : i # 1 => i - 1 \in DOMAIN Tail(s) /\ Tail(s)[i - 1] = s[i]
<1>1. Len(s) \in Nat /\ Len(s) > 0 /\ DOMAIN s = 1 .. Len(s) /\ Head(s) = s[1]
  BY LenProperties, EmptySeq
<1>2. Tail(s) \in Seq(S) /\ Len(Tail(s)) = Len(s) - 1
      /\ \A i \in 1 .. Len(Tail(s)) : Tail(s)[i] = s[i + 1]
  BY HeadTailProperties
<1>3. DOMAIN Tail(s) = 1 .. Len(s) - 1
  BY <1>2, LenProperties
<1>4. s[1] \in S
  BY <1>1, ElementOfSeq
<1>5. ASSUME NEW i \in DOMAIN s, i # 1
      PROVE  i - 1 \in DOMAIN Tail(s) /\ Tail(s)[i - 1] = s[i]
  <2>1. i - 1 \in 1 .. Len(s) - 1 /\ (i - 1) + 1 = i
    BY <1>1, <1>5
  <2>2. Tail(s)[i - 1] = s[(i - 1) + 1]
    BY <1>2, <2>1
  <2> QED BY <1>3, <2>1, <2>2
<1> QED BY <1>1, <1>2, <1>3, <1>4, <1>5

\* A sequence with one more element.
LEMMA SeqAppend ==
  ASSUME NEW S, NEW s \in Seq(S), NEW e \in S
  PROVE  /\ Append(s, e) \in Seq(S)
         /\ Len(s) + 1 \notin DOMAIN s /\ Append(s, e)[Len(s) + 1] = e
         /\ DOMAIN Append(s, e) = DOMAIN s \union {Len(s) + 1}
         /\ \A i \in DOMAIN s : Append(s, e)[i] = s[i]
<1>1. DOMAIN s = 1 .. Len(s) /\ Len(s) \in Nat
  BY LenProperties
<1>2. /\ Append(s, e) \in Seq(S) /\ Len(Append(s, e)) = Len(s) + 1
      /\ \A i \in 1 .. Len(s) : Append(s, e)[i] = s[i]
      /\ Append(s, e)[Len(s) + 1] = e
  BY AppendProperties
<1>3. DOMAIN Append(s, e) = 1 .. Len(s) + 1
  BY <1>2, LenProperties
<1> QED BY <1>1, <1>2, <1>3

\* The cell at the head of the ring.
LEMMA RingHead ==
  ASSUME IInv, ring # <<>>
  PROVE  /\ Head(ring) \in Cell /\ Tail(ring) \in Seq(Cell)
         /\ 1 \in DOMAIN ring /\ Head(ring) = ring[1]
         /\ \A i \in DOMAIN Tail(ring) :
              i \in Nat /\ i + 1 # 1 /\ i + 1 \in DOMAIN ring /\ Tail(ring)[i] = ring[i + 1]
BY SeqHead DEF IInv, TypeOK

\* The ring with one more cell.
LEMMA RingAppend ==
  ASSUME IInv, NEW c \in Cell
  PROVE  /\ Append(ring, c) \in Seq(Cell)
         /\ \E k : /\ k \notin DOMAIN ring /\ Append(ring, c)[k] = c
                  /\ DOMAIN Append(ring, c) = DOMAIN ring \union {k}
                  /\ \A i \in DOMAIN ring : Append(ring, c)[i] = ring[i]
<1>1. ring \in Seq(Cell)
  BY DEF IInv, TypeOK
<1> QED BY <1>1, SeqAppend

\* The ring holds cells.
LEMMA RingElements ==
  ASSUME IInv
  PROVE  \A i \in DOMAIN ring : ring[i] \in Cell
BY ElementOfSeq, LenProperties DEF IInv, TypeOK

\* The next message of a cell is a message.
LEMMA QueueHead ==
  ASSUME IInv, NEW c \in Cell, mq[c] # <<>>
  PROVE  Head(mq[c]) \in Message /\ Head(mq[c]) \subseteq Cell /\ Tail(mq[c]) \in Seq(Message)
<1>1. mq[c] \in Seq(Message)
  BY DEF IInv, TypeOK
<1> QED BY <1>1, SeqHead, CellAssumption

\* A thread at work has a cell.
LEMMA ActorType ==
  ASSUME IInv, NEW w \in Thread,
         pc[w] \in {"lock", "run", "load", "trash", "closing", "failing", "destroy", "back"}
  PROVE  /\ cur[w] \in Cell /\ Actor(w) \in Cell
         /\ IF w = main THEN Booting ELSE w \in Worker /\ pc[main] = "join" /\ ~Booting
<1> USE ThreadAssumption, CellAssumption
<1>1. cur[w] \in Cell \union {NoCell} /\ new[w] \in Cell \union {NoCell}
  BY DEF IInv, TypeOK
<1>2. CASE w = main
  BY <1>1, <1>2 DEF IInv, Phases, Booting, Actor
<1>3. CASE w # main
  BY <1>1, <1>3 DEF IInv, Phases, Booting, Actor, Thread
<1> QED BY <1>2, <1>3

-----------------------------------------------------------------------------
(* What the counts count.                                                  *)

\* The cells whose set in m holds c, and the places where queues q pack it.
Holders(m, c) == {d \in Cell : c \in m[d]}
Places(q, c) == {p \in UNION {{d} \X DOMAIN q[d] : d \in Cell} : c \in q[p[1]][p[2]]}
Runs(c) == {w \in Thread : Dispatching(w, c)}

Account ==
  \A c \in Cell :
    ref[c] = Cardinality(Holders(map, c)) + Cardinality(Holders(dying, c))
             + Cardinality(Places(mq, c)) + Cardinality(Runs(c)) + leaked[c]

\* Two finite sets that differ in one element at most.
LEMMA OneElement ==
  ASSUME NEW A, NEW B, NEW e, IsFiniteSet(A), A \ {e} = B \ {e}
  PROVE  /\ IsFiniteSet(B) /\ Cardinality(A) \in Nat /\ Cardinality(B) \in Nat
         /\ e \in A /\ e \in B => Cardinality(B) = Cardinality(A)
         /\ e \notin A /\ e \notin B => Cardinality(B) = Cardinality(A)
         /\ e \in B /\ e \notin A => Cardinality(B) = Cardinality(A) + 1
         /\ e \notin B /\ e \in A => Cardinality(B) = Cardinality(A) - 1
<1>1. CASE e \in A <=> e \in B
  <2> A = B
    BY <1>1
  <2> QED BY <1>1, FS_CardinalityType
<1>2. CASE e \in B /\ e \notin A
  <2> B = A \cup {e}
    BY <1>2
  <2> QED BY <1>2, FS_CardinalityType, FS_AddElement
<1>3. CASE e \notin B /\ e \in A
  <2> B = A \ {e}
    BY <1>3
  <2> QED BY <1>3, FS_CardinalityType, FS_RemoveElement
<1> QED BY <1>1, <1>2, <1>3

\* Sets or queues where that of d has changed.
Put(m, d, T) == [m EXCEPT ![d] = T]
Pushed(q, d, msg) == [q EXCEPT ![d] = Append(@, msg)]
Popped(q, d) == [q EXCEPT ![d] = Tail(@)]

\* The holders of a cell are finitely many.
LEMMA HoldersFinite ==
  ASSUME NEW m, NEW c
  PROVE  IsFiniteSet(Holders(m, c)) /\ Cardinality(Holders(m, c)) \in Nat
BY CellAssumption, FS_Subset, FS_CardinalityType DEF Holders

\* The holders of a cell after one set has changed.
LEMMA HoldersPut ==
  ASSUME NEW m \in [Cell -> SUBSET Cell], NEW d \in Cell, NEW T, NEW c
  PROVE  /\ (c \in T <=> c \in m[d]) =>
              Cardinality(Holders(Put(m, d, T), c)) = Cardinality(Holders(m, c))
         /\ c \in T /\ c \notin m[d] =>
              Cardinality(Holders(Put(m, d, T), c)) = Cardinality(Holders(m, c)) + 1
         /\ c \notin T /\ c \in m[d] =>
              Cardinality(Holders(Put(m, d, T), c)) = Cardinality(Holders(m, c)) - 1
<1>1. Holders(m, c) \ {d} = Holders(Put(m, d, T), c) \ {d}
  BY DEF Holders, Put
<1>2. (d \in Holders(m, c) <=> c \in m[d]) /\ (d \in Holders(Put(m, d, T), c) <=> c \in T)
  BY DEF Holders, Put
<1>3. IsFiniteSet(Holders(m, c))
  BY HoldersFinite
<1> QED BY <1>1, <1>2, <1>3, OneElement

\* A place is a cell and a position in its queue.
LEMMA PlacesAre ==
  ASSUME NEW q \in [Cell -> Seq(Message)], NEW c
  PROVE  /\ \A p \in Places(q, c) : \E d, i : p = <<d, i>>
         /\ \A d, i : <<d, i>> \in Places(q, c) <=>
                     d \in Cell /\ i \in DOMAIN q[d] /\ c \in q[d][i]
<1>1. ASSUME NEW p \in Places(q, c)
      PROVE  \E d, i : p = <<d, i>>
  <2>1. PICK d \in Cell : p \in {d} \X DOMAIN q[d]
    BY DEF Places
  <2> QED BY <2>1
<1>2. ASSUME NEW d, NEW i
      PROVE  <<d, i>> \in Places(q, c) <=>
               d \in Cell /\ i \in DOMAIN q[d] /\ c \in q[d][i]
  <2>1. ASSUME d \in Cell, i \in DOMAIN q[d], c \in q[d][i]
        PROVE  <<d, i>> \in Places(q, c)
    <3>1. <<d, i>> \in {d} \X DOMAIN q[d]
      BY <2>1
    <3> QED BY <2>1, <3>1 DEF Places
  <2>2. ASSUME <<d, i>> \in Places(q, c)
        PROVE  d \in Cell /\ i \in DOMAIN q[d] /\ c \in q[d][i]
    BY <2>2 DEF Places
  <2> QED BY <2>1, <2>2
<1> QED BY <1>1, <1>2

\* The places of a cell are finitely many.
LEMMA PlacesFinite ==
  ASSUME NEW q \in [Cell -> Seq(Message)], NEW c
  PROVE  IsFiniteSet(Places(q, c)) /\ Cardinality(Places(q, c)) \in Nat
<1> DEFINE P(d) == {d} \X DOMAIN q[d]
           S == {P(d) : d \in Cell}
           f == [d \in Cell |-> P(d)]
<1>1. f \in Surjection(Cell, S)
  BY DEF Surjection
<1>2. IsFiniteSet(S)
  BY <1>1, CellAssumption, FS_Surjection
<1>3. ASSUME NEW d \in Cell
      PROVE  IsFiniteSet(P(d))
  <2>1. Len(q[d]) \in Nat /\ DOMAIN q[d] = 1 .. Len(q[d])
    BY LenProperties
  <2>2. IsFiniteSet(DOMAIN q[d])
    BY <2>1, FS_Interval
  <2> QED BY <2>2, FS_Singleton, FS_Product
<1>4. \A T \in S : IsFiniteSet(T)
  BY <1>3
<1>5. IsFiniteSet(UNION S)
  BY <1>2, <1>4, FS_UNION
<1> QED BY <1>5, FS_Subset, FS_CardinalityType DEF Places

\* A message pushed packs a cell in one more place.
LEMMA PlacesPushed ==
  ASSUME NEW q \in [Cell -> Seq(Message)], NEW x \in Cell, NEW msg \in Message, NEW c
  PROVE  /\ Cardinality(Places(Pushed(q, x, msg), c)) \in Nat
         /\ c \in msg => Cardinality(Places(Pushed(q, x, msg), c)) = Cardinality(Places(q, c)) + 1
         /\ c \notin msg => Cardinality(Places(Pushed(q, x, msg), c)) = Cardinality(Places(q, c))
<1> DEFINE k == Pushed(q, x, msg)
<1>0. k \in [Cell -> Seq(Message)] /\ k[x] = Append(q[x], msg)
      /\ \A d \in Cell : d # x => k[d] = q[d]
  BY SeqAppend DEF Pushed
<1> HIDE DEF k
<1>1. PICK n : /\ n \notin DOMAIN q[x] /\ k[x][n] = msg
               /\ DOMAIN k[x] = DOMAIN q[x] \union {n}
               /\ \A i \in DOMAIN q[x] : k[x][i] = q[x][i]
  BY <1>0, SeqAppend
<1>2. <<x, n>> \notin Places(q, c) /\ (<<x, n>> \in Places(k, c) <=> c \in msg)
  BY <1>1, PlacesAre, <1>0
<1>3. ASSUME NEW d, NEW i, <<d, i>> # <<x, n>>
      PROVE  <<d, i>> \in Places(q, c) <=> <<d, i>> \in Places(k, c)
  <2>1. CASE d = x
    <3>1. i # n
      BY <1>3, <2>1
    <3>2. (i \in DOMAIN q[d] <=> i \in DOMAIN k[d])
          /\ (i \in DOMAIN q[d] => k[d][i] = q[d][i])
      BY <1>1, <2>1, <3>1
    <3>3. <<d, i>> \in Places(q, c) <=> d \in Cell /\ i \in DOMAIN q[d] /\ c \in q[d][i]
      BY PlacesAre
    <3>4. <<d, i>> \in Places(k, c) <=> d \in Cell /\ i \in DOMAIN k[d] /\ c \in k[d][i]
      BY <1>0, PlacesAre
    <3> QED BY <3>2, <3>3, <3>4
  <2>2. CASE d # x
    <3>1. d \in Cell => k[d] = q[d]
      BY <2>2, <1>0
    <3> QED BY <3>1, PlacesAre, <1>0
  <2> QED BY <2>1, <2>2
<1>4. Places(q, c) \ {<<x, n>>} = Places(k, c) \ {<<x, n>>}
  <2>1. ASSUME NEW p, p # <<x, n>>
        PROVE  p \in Places(q, c) <=> p \in Places(k, c)
    <3>1. p \in Places(q, c) \/ p \in Places(k, c) => \E d, i : p = <<d, i>>
      BY PlacesAre, <1>0
    <3> QED BY <1>3, <2>1, <3>1
  <2> QED BY <2>1
<1>5. IsFiniteSet(Places(q, c))
  BY PlacesFinite, <1>0
<1> QED BY <1>2, <1>4, <1>5, OneElement DEF k

\* A message popped packs a cell in one place less: the others move up.
LEMMA PlacesPopped ==
  ASSUME NEW q \in [Cell -> Seq(Message)], NEW x \in Cell, q[x] # <<>>, NEW c
  PROVE  /\ Cardinality(Places(Popped(q, x), c)) \in Nat
         /\ c \in Head(q[x]) =>
              Cardinality(Places(Popped(q, x), c)) = Cardinality(Places(q, c)) - 1
         /\ c \notin Head(q[x]) =>
              Cardinality(Places(Popped(q, x), c)) = Cardinality(Places(q, c))
<1> DEFINE k == Popped(q, x)
<1>0. k \in [Cell -> Seq(Message)] /\ k[x] = Tail(q[x])
      /\ \A d \in Cell : d # x => k[d] = q[d]
  BY SeqHead DEF Popped
<1> HIDE DEF k
<1> DEFINE A == Places(q, c) \ {<<x, 1>>}
           f == [p \in Places(k, c) |-> IF p[1] = x THEN <<x, p[2] + 1>> ELSE p]
<1>1. /\ 1 \in DOMAIN q[x] /\ Head(q[x]) = q[x][1]
      /\ \A i \in DOMAIN k[x] :
           i \in Nat /\ i + 1 # 1 /\ i + 1 \in DOMAIN q[x] /\ k[x][i] = q[x][i + 1]
      /\ \A i \in DOMAIN q[x] : i # 1 => i - 1 \in DOMAIN k[x] /\ k[x][i - 1] = q[x][i]
  BY <1>0, SeqHead
<1>2. \A i \in DOMAIN q[x] : i \in Nat
  BY LenProperties
<1>3. <<x, 1>> \in Places(q, c) <=> c \in Head(q[x])
  BY <1>1, PlacesAre, <1>0
<1>4. ASSUME NEW i, <<x, i>> \in Places(k, c)
      PROVE  f[<<x, i>>] = <<x, i + 1>> /\ <<x, i + 1>> \in A /\ i \in Nat
  <2>1. i \in DOMAIN k[x] /\ c \in k[x][i]
    BY <1>4, PlacesAre, <1>0
  <2>2. i \in Nat /\ i + 1 # 1 /\ i + 1 \in DOMAIN q[x] /\ c \in q[x][i + 1]
    BY <1>1, <2>1
  <2>3. <<x, i + 1>> \in Places(q, c)
    BY <2>2, PlacesAre, <1>0
  <2>4. f[<<x, i>>] = <<x, i + 1>>
    BY <1>4
  <2> QED BY <2>2, <2>3, <2>4
<1>5. ASSUME NEW d, NEW i, d # x
      PROVE  /\ <<d, i>> \in Places(k, c) => f[<<d, i>>] = <<d, i>>
             /\ <<d, i>> \in Places(k, c) <=> <<d, i>> \in A
  <2>1. <<d, i>> \in Places(k, c) => f[<<d, i>>] = <<d, i>>
    BY <1>5
  <2>2. d \in Cell => k[d] = q[d]
    BY <1>5, <1>0
  <2>3. <<d, i>> \in Places(k, c) <=> <<d, i>> \in Places(q, c)
    BY <2>2, PlacesAre, <1>0
  <2> QED BY <1>5, <2>1, <2>3
<1>6. ASSUME NEW i, <<x, i>> \in A
      PROVE  <<x, i - 1>> \in Places(k, c) /\ (i - 1) + 1 = i
  <2>1. i # 1 /\ i \in DOMAIN q[x] /\ c \in q[x][i]
    BY <1>6, PlacesAre, <1>0
  <2>2. i \in Nat /\ i - 1 \in DOMAIN k[x] /\ c \in k[x][i - 1]
    BY <1>1, <1>2, <2>1
  <2>3. PICK j : j = i - 1
    OBVIOUS
  <2>4. <<x, j>> \in Places(k, c)
    BY <2>2, <2>3, PlacesAre, <1>0
  <2>5. (i - 1) + 1 = i
    BY <2>2
  <2> QED BY <2>3, <2>4, <2>5
<1>7. /\ \A p \in Places(k, c) : \E d, i : p = <<d, i>>
      /\ \A p \in A : \E d, i : p = <<d, i>>
  BY PlacesAre, <1>0
<1>8. DOMAIN f = Places(k, c)
  OBVIOUS
<1> HIDE DEF f, A
<1>9. f \in [Places(k, c) -> A]
  <2>1. ASSUME NEW p \in Places(k, c)
        PROVE  f[p] \in A
    <3>1. PICK d, i : p = <<d, i>>
      BY <1>7
    <3> QED BY <1>4, <1>5, <3>1
  <2>2. f = [p \in Places(k, c) |-> f[p]]
    BY DEF f
  <2> QED BY <2>1, <2>2
<1>10. ASSUME NEW s \in Places(k, c), NEW t \in Places(k, c), f[s] = f[t]
       PROVE  s = t
  <2>1. PICK d, i : s = <<d, i>>
    BY <1>7
  <2>2. PICK e, j : t = <<e, j>>
    BY <1>7
  <2>3. CASE d = x /\ e = x
    <3>1. <<x, i + 1>> = <<x, j + 1>> /\ i \in Nat /\ j \in Nat
      BY <1>4, <1>10, <2>1, <2>2, <2>3
    <3>2. i + 1 = j + 1
      BY <3>1
    <3>3. i = j
      BY <3>1, <3>2
    <3> QED BY <2>1, <2>2, <2>3, <3>3
  <2>4. CASE d # x /\ e # x
    BY <1>5, <1>10, <2>1, <2>2, <2>4
  <2>5. CASE d = x /\ e # x
    <3>1. <<x, i + 1>> = <<e, j>>
      BY <1>4, <1>5, <1>10, <2>1, <2>2, <2>5
    <3> QED BY <2>5, <3>1
  <2>6. CASE d # x /\ e = x
    <3>1. <<d, i>> = <<x, j + 1>>
      BY <1>4, <1>5, <1>10, <2>1, <2>2, <2>6
    <3> QED BY <2>6, <3>1
  <2> QED BY <2>3, <2>4, <2>5, <2>6
<1>11. ASSUME NEW t \in A
       PROVE  \E p \in Places(k, c) : f[p] = t
  <2>1. PICK d, i : t = <<d, i>>
    BY <1>7
  <2>2. CASE d = x
    BY <1>4, <1>6, <2>1, <2>2
  <2>3. CASE d # x
    BY <1>5, <2>1, <2>3
  <2> QED BY <2>2, <2>3
<1>12. f \in Bijection(Places(k, c), A)
  BY <1>9, <1>10, <1>11 DEF Bijection, Injection, Surjection, IsInjective
<1>13. IsFiniteSet(Places(k, c)) /\ IsFiniteSet(Places(q, c))
  BY PlacesFinite, <1>0
<1>14. Cardinality(A) = Cardinality(Places(k, c))
  BY <1>12, <1>13, FS_Bijection DEF ExistsBijection
<1>15. Cardinality(A) = IF <<x, 1>> \in Places(q, c) THEN Cardinality(Places(q, c)) - 1
                        ELSE Cardinality(Places(q, c))
  BY <1>13, FS_RemoveElement DEF A
<1> QED BY <1>3, <1>13, <1>14, <1>15, FS_CardinalityType DEF k

\* A queue dropped: what it packed a cell in is what its places were.
Cleared(q, d) == [q EXCEPT ![d] = <<>>]
Slots(q, d, c) == {i \in DOMAIN q[d] : c \in q[d][i]}

LEMMA PlacesCleared ==
  ASSUME NEW q \in [Cell -> Seq(Message)], NEW x \in Cell, NEW c
  PROVE  /\ Cardinality(Places(Cleared(q, x), c)) \in Nat /\ Cardinality(Slots(q, x, c)) \in Nat
         /\ Cardinality(Places(q, c)) =
              Cardinality(Places(Cleared(q, x), c)) + Cardinality(Slots(q, x, c))
<1> DEFINE k == Cleared(q, x)
           S == {x} \X Slots(q, x, c)
<1>0. k \in [Cell -> Seq(Message)] /\ k[x] = <<>> /\ \A d \in Cell : d # x => k[d] = q[d]
  BY EmptySeq DEF Cleared
<1> HIDE DEF k
<1>1. DOMAIN q[x] = 1 .. Len(q[x]) /\ Len(q[x]) \in Nat
  BY LenProperties
<1>2. IsFiniteSet(Slots(q, x, c)) /\ Cardinality(Slots(q, x, c)) \in Nat
  <2>1. IsFiniteSet(1 .. Len(q[x]))
    BY <1>1, FS_Interval
  <2>2. Slots(q, x, c) \subseteq 1 .. Len(q[x])
    BY <1>1 DEF Slots
  <2> QED BY <2>1, <2>2, FS_Subset, FS_CardinalityType
<1>3. IsFiniteSet(S) /\ Cardinality(S) = Cardinality(Slots(q, x, c))
  <2>1. IsFiniteSet({x}) /\ Cardinality({x}) = 1
    BY FS_Singleton
  <2>2. IsFiniteSet(S) /\ Cardinality(S) = Cardinality({x}) * Cardinality(Slots(q, x, c))
    BY <1>2, <2>1, FS_Product
  <2> HIDE DEF S
  <2> QED BY <1>2, <2>1, <2>2
<1>4. ASSUME NEW d, NEW i
      PROVE  /\ <<d, i>> \in Places(q, c) <=> <<d, i>> \in Places(k, c) \/ <<d, i>> \in S
             /\ ~(<<d, i>> \in Places(k, c) /\ <<d, i>> \in S)
  <2>1. <<d, i>> \in S <=> d = x /\ i \in DOMAIN q[x] /\ c \in q[x][i]
    BY DEF Slots
  <2>2. <<d, i>> \in Places(q, c) <=> d \in Cell /\ i \in DOMAIN q[d] /\ c \in q[d][i]
    BY PlacesAre
  <2>3. <<d, i>> \in Places(k, c) <=> d \in Cell /\ i \in DOMAIN k[d] /\ c \in k[d][i]
    BY <1>0, PlacesAre
  <2>4. DOMAIN k[x] = {}
    BY <1>0
  <2> HIDE DEF S
  <2> QED BY <1>0, <2>1, <2>2, <2>3, <2>4
<1>5. /\ \A p \in Places(q, c) : \E d, i : p = <<d, i>>
      /\ \A p \in Places(k, c) : \E d, i : p = <<d, i>>
      /\ \A p \in S : \E d, i : p = <<d, i>>
  <2>1. \A p \in Places(q, c) : \E d, i : p = <<d, i>>
    BY PlacesAre
  <2>2. \A p \in Places(k, c) : \E d, i : p = <<d, i>>
    BY <1>0, PlacesAre
  <2>3. \A p \in S : p = <<p[1], p[2]>>
    OBVIOUS
  <2> HIDE DEF S
  <2> QED BY <2>1, <2>2, <2>3
<1> HIDE DEF S
<1>6. Places(q, c) = Places(k, c) \union S /\ Places(k, c) \intersect S = {}
  BY <1>4, <1>5
<1>7. IsFiniteSet(Places(k, c)) /\ Cardinality(Places(k, c)) \in Nat
  BY <1>0, PlacesFinite
<1>8. Cardinality(Places(q, c)) = Cardinality(Places(k, c)) + Cardinality(S)
  <2>1. Cardinality(Places(k, c) \union S)
          = Cardinality(Places(k, c)) + Cardinality(S) - Cardinality(Places(k, c) \intersect S)
    BY <1>3, <1>7, FS_Union
  <2>2. Cardinality(Places(k, c) \intersect S) = 0
    BY <1>6, FS_EmptySet
  <2> QED BY <1>2, <1>3, <1>6, <1>7, <2>1, <2>2
<1> QED BY <1>2, <1>3, <1>7, <1>8 DEF k

\* The counts of a state.
LEMMA Accounts ==
  ASSUME IInv, NEW c \in Cell
  PROVE  /\ ref[c] = Cardinality(Holders(map, c)) + Cardinality(Holders(dying, c))
                    + Cardinality(Places(mq, c)) + Cardinality(Runs(c)) + leaked[c]
         /\ ref[c] \in Nat /\ leaked[c] \in Nat
         /\ Cardinality(Holders(map, c)) \in Nat /\ Cardinality(Holders(dying, c)) \in Nat
         /\ Cardinality(Places(mq, c)) \in Nat
         /\ IsFiniteSet(Runs(c)) /\ Cardinality(Runs(c)) \in Nat
<1>1. IsFiniteSet(Thread)
  BY ThreadAssumption, FS_Singleton, FS_Union DEF Thread
<1>2. IsFiniteSet(Runs(c)) /\ Cardinality(Runs(c)) \in Nat
  BY <1>1, FS_Subset, FS_CardinalityType DEF Runs
<1>3. mq \in [Cell -> Seq(Message)] /\ ref[c] \in Nat /\ leaked[c] \in Nat
  BY DEF IInv, TypeOK
<1>4. CASE c \in alloc
  <2>1. RefAccounting
    BY DEF IInv
  <2>2. Places(mq, c) = InMessages(c)
    BY DEF Places, InMessages
  <2>3. ref[c] = Cardinality({d \in Cell : c \in map[d]})
                 + Cardinality({d \in Cell : c \in dying[d]})
                 + Cardinality(InMessages(c))
                 + Cardinality({w \in Thread : Dispatching(w, c)})
                 + leaked[c]
    BY <1>4, <2>1 DEF RefAccounting
  <2>4. /\ {d \in Cell : c \in map[d]} = Holders(map, c)
        /\ {d \in Cell : c \in dying[d]} = Holders(dying, c)
        /\ {w \in Thread : Dispatching(w, c)} = Runs(c)
    BY DEF Holders, Runs
  <2>5. ref[c] = Cardinality(Holders(map, c)) + Cardinality(Holders(dying, c))
                 + Cardinality(Places(mq, c)) + Cardinality(Runs(c)) + leaked[c]
    BY <2>2, <2>3, <2>4
  <2> QED BY <1>2, <1>3, <2>5, HoldersFinite, PlacesFinite
<1>5. CASE c \notin alloc
  <2>1. Holders(map, c) = {} /\ Holders(dying, c) = {}
    BY <1>5 DEF IInv, NoDangling, Holders
  <2>2. Runs(c) = {}
    <3>1. \A w \in Thread : cur[w] # c
      BY <1>5, CellAssumption DEF IInv, NoDangling
    <3> QED BY <3>1 DEF Runs, Dispatching
  <2>3. Places(mq, c) = {}
    <3>1. ASSUME NEW d \in Cell, NEW i \in DOMAIN mq[d]
          PROVE  c \notin mq[d][i]
      BY <1>5 DEF IInv, NoDangling, ToSet
    <3> QED BY <1>3, <3>1, PlacesAre
  <2>4. ref[c] = 0 /\ leaked[c] = 0
    BY <1>5 DEF IInv, Free
  <2> QED BY <2>1, <2>2, <2>3, <2>4, FS_EmptySet
<1> QED BY <1>2, <1>3, <1>4, <1>5, HoldersFinite, PlacesFinite

\* What a step that puts T for the userdata of d, or a message in its queue, counts.
LEMMA MapPut ==
  ASSUME IInv, NEW d \in Cell, NEW T, NEW c
  PROVE  /\ (c \in T <=> c \in map[d]) =>
              Cardinality(Holders(Put(map, d, T), c)) = Cardinality(Holders(map, c))
         /\ c \in T /\ c \notin map[d] =>
              Cardinality(Holders(Put(map, d, T), c)) = Cardinality(Holders(map, c)) + 1
         /\ c \notin T /\ c \in map[d] =>
              Cardinality(Holders(Put(map, d, T), c)) = Cardinality(Holders(map, c)) - 1
<1>1. map \in [Cell -> SUBSET Cell]
  BY DEF IInv, TypeOK
<1> QED BY <1>1, HoldersPut

\* The same for the userdata that await their finalizer.
LEMMA DyingPut ==
  ASSUME IInv, NEW d \in Cell, NEW T, NEW c
  PROVE  /\ (c \in T <=> c \in dying[d]) =>
              Cardinality(Holders(Put(dying, d, T), c)) = Cardinality(Holders(dying, c))
         /\ c \in T /\ c \notin dying[d] =>
              Cardinality(Holders(Put(dying, d, T), c)) = Cardinality(Holders(dying, c)) + 1
         /\ c \notin T /\ c \in dying[d] =>
              Cardinality(Holders(Put(dying, d, T), c)) = Cardinality(Holders(dying, c)) - 1
<1>1. dying \in [Cell -> SUBSET Cell]
  BY DEF IInv, TypeOK
<1> QED BY <1>1, HoldersPut

\* The same for a message pushed.
LEMMA QueuePushed ==
  ASSUME IInv, NEW d \in Cell, NEW msg \in Message, NEW c
  PROVE  /\ c \in msg =>
              Cardinality(Places(Pushed(mq, d, msg), c)) = Cardinality(Places(mq, c)) + 1
         /\ c \notin msg =>
              Cardinality(Places(Pushed(mq, d, msg), c)) = Cardinality(Places(mq, c))
<1>1. mq \in [Cell -> Seq(Message)]
  BY DEF IInv, TypeOK
<1> QED BY <1>1, PlacesPushed

-----------------------------------------------------------------------------
(* What the invariant says of a thread at work, and of the cell it works on. *)

\* Two threads never work on one cell.
LEMMA ActorsApart ==
  ASSUME IInv, NEW v \in Thread, NEW w \in Thread, v # w,
         Actor(v) \in Cell
  PROVE  Actor(v) # Actor(w) /\ Actor(v) # cur[w]
BY CellAssumption DEF IInv, Apart, Actor

\* The cell a thread works on is allocated.
LEMMA ActorAllocated ==
  ASSUME IInv, NEW w \in Thread, Actor(w) \in Cell
  PROVE  Actor(w) \in alloc
BY CellAssumption DEF IInv, NoDangling, Actor

\* A cell's own Lua state, while it is open, keeps a userdata for it and one for the
\* system cell.
LEMMA OwnState ==
  ASSUME IInv, NEW w \in Thread, pc[w] \in {"lock", "run", "load"}, L[Actor(w)]
  PROVE  {Actor(w), system} \subseteq map[Actor(w)]
<1>1. Actor(w) \in Cell
  BY ActorType
<1>2. \A v \in Thread : pc[v] = "failing" => Actor(v) # Actor(w)
  BY <1>1, ActorsApart
<1> QED BY <1>1, <1>2 DEF IInv, States, KeepsOwn, ClosedIsEmpty, QueueIsServed

\* Whatever refers to a cell counts.
LEMMA Referenced ==
  ASSUME IInv, NEW c \in Cell
  PROVE  /\ \A d \in Cell : c \in map[d] \/ c \in dying[d] => ref[c] > 0
         /\ \A d \in Cell : \A i \in DOMAIN mq[d] : c \in mq[d][i] => ref[c] > 0
         /\ \A w \in Thread : Dispatching(w, c) => ref[c] > 0
         /\ leaked[c] > 0 => ref[c] > 0
<1>0. mq \in [Cell -> Seq(Message)]
  BY DEF IInv, TypeOK
<1> DEFINE U == Cardinality(Holders(map, c))
           D == Cardinality(Holders(dying, c))
           P == Cardinality(Places(mq, c))
           R == Cardinality(Runs(c))
<1>1. /\ U \in Nat /\ D \in Nat /\ P \in Nat /\ R \in Nat
      /\ ref[c] \in Nat /\ leaked[c] \in Nat /\ ref[c] = U + D + P + R + leaked[c]
  BY Accounts
<1>2. U # 0 \/ D # 0 \/ P # 0 \/ R # 0 \/ leaked[c] > 0 => ref[c] > 0
  <2> HIDE DEF U, D, P, R
  <2> QED BY <1>1
<1>3. ASSUME NEW d \in Cell, c \in map[d] \/ c \in dying[d]
      PROVE  ref[c] > 0
  <2>1. Holders(map, c) # {} \/ Holders(dying, c) # {}
    BY <1>3 DEF Holders
  <2>2. U # 0 \/ D # 0
    BY <2>1, HoldersFinite, FS_EmptySet
  <2> QED BY <1>2, <2>2
<1>4. ASSUME NEW d \in Cell, NEW i \in DOMAIN mq[d], c \in mq[d][i]
      PROVE  ref[c] > 0
  <2>1. <<d, i>> \in Places(mq, c)
    BY <1>0, <1>4, PlacesAre
  <2>2. P # 0
    BY <1>0, <2>1, PlacesFinite, FS_EmptySet
  <2> QED BY <1>2, <2>2
<1>5. ASSUME NEW w \in Thread, Dispatching(w, c)
      PROVE  ref[c] > 0
  <2>1. w \in Runs(c)
    BY <1>5 DEF Runs
  <2>2. R # 0
    BY <2>1, Accounts, FS_EmptySet
  <2> QED BY <1>2, <2>2
<1>6. leaked[c] > 0 => ref[c] > 0
  BY <1>2
<1> QED BY <1>3, <1>4, <1>5, <1>6

\* A cell without a Lua state whose turn a thread has is empty, but perhaps for what
\* it sent itself and could not load to take.
LEMMA Emptied ==
  ASSUME IInv, NEW w \in Thread, pc[w] \in {"lock", "destroy"}, ~L[Actor(w)]
  PROVE  /\ Actor(w) \in Cell /\ Actor(w) \in alloc
         /\ map[Actor(w)] = {} /\ dying[Actor(w)] = {}
         /\ ~FailedToLoad(w) => mq[Actor(w)] = <<>>
<1>1. Actor(w) \in Cell /\ Actor(w) \in alloc
  BY ActorType, ActorAllocated
<1>2. ~ \E v \in Worker : cur[v] = Actor(w) /\ pc[v] \in {"trash", "closing"}
  <2> SUFFICES ASSUME NEW v \in Worker, cur[v] = Actor(w), pc[v] \in {"trash", "closing"}
               PROVE  FALSE
    OBVIOUS
  <2>1. v \in Thread /\ v # w
    BY DEF Thread
  <2> QED BY <1>1, <2>1, ActorsApart
<1>3. map[Actor(w)] = {} /\ dying[Actor(w)] = {}
  BY <1>1, <1>2 DEF IInv, States, ClosedIsEmpty
<1>4. ASSUME NEW v \in Thread, Actor(v) = Actor(w)
      PROVE  v = w
  BY <1>1, <1>4, ActorsApart
<1>5. ~FailedToLoad(w) => mq[Actor(w)] = <<>>
  BY <1>1, <1>2, <1>4 DEF IInv, States, QueueIsServed
<1> QED BY <1>1, <1>3, <1>5

\* A cell is destroyed, and the process goes on, when nothing refers to it any more.
LEMMA Destroyed ==
  ASSUME IInv, NEW w \in Thread, At(w, "destroy")
  PROVE  /\ Actor(w) \in Cell /\ Actor(w) \in alloc
         /\ quit[Actor(w)] /\ ~L[Actor(w)] /\ ref[Actor(w)] = 0 /\ leaked[Actor(w)] = 0
         /\ map[Actor(w)] = {} /\ dying[Actor(w)] = {}
         /\ \A d \in Cell : Actor(w) \notin map[d] /\ Actor(w) \notin dying[d]
         /\ \A d \in Cell : \A i \in DOMAIN mq[d] : Actor(w) \notin mq[d][i]
         /\ \A v \in Thread : zero[v] # Actor(w)
         /\ \A v \in Thread : v # w => cur[v] # Actor(w) /\ new[v] # Actor(w)
         /\ new[w] # NoCell => cur[w] # Actor(w)
         /\ \A i \in DOMAIN ring : ring[i] # Actor(w)
<1>0. pc[w] = "destroy" /\ zero[w] = NoCell
  BY DEF At
<1>1. ref[Actor(w)] = 0 /\ ~L[Actor(w)]
  BY DEF At, Aborted, Asserted
<1>2. /\ Actor(w) \in Cell /\ Actor(w) \in alloc
      /\ map[Actor(w)] = {} /\ dying[Actor(w)] = {}
  BY <1>0, <1>1, Emptied
<1>3. ASSUME NEW v \in Thread
      PROVE  zero[v] # Actor(w)
  <2>1. CASE new[w] # NoCell
    <3>1. Actor(w) = new[w]
      BY <2>1 DEF Actor
    <3>2. zero[v] = new[w] => v = w
      BY <2>1 DEF IInv, Unshared
    <3> QED BY <1>0, <1>2, <3>1, <3>2, CellAssumption
  <2>2. CASE new[w] = NoCell /\ w = main
    <3>1. v # w => zero[v] = NoCell
      BY <1>0, <2>2 DEF IInv, Phases, Booting, Thread
    <3> QED BY <1>0, <1>2, <3>1, CellAssumption
  <2>3. CASE new[w] = NoCell /\ w # main
    <3>1. quit[Actor(w)]
      BY <1>0, <2>3 DEF IInv, Unreferenced, FailedToLoad
    <3> QED BY <1>2, <3>1, CellAssumption DEF IInv, Unreferenced
  <2> QED BY <2>1, <2>2, <2>3
<1>4. leaked[Actor(w)] = 0 /\ quit[Actor(w)]
  BY <1>1, <1>2, <1>3, Accounts DEF IInv, Unreferenced
<1>5. /\ \A d \in Cell : Actor(w) \notin map[d] /\ Actor(w) \notin dying[d]
      /\ \A d \in Cell : \A i \in DOMAIN mq[d] : Actor(w) \notin mq[d][i]
  BY <1>1, <1>2, Referenced
<1>6. /\ \A v \in Thread : v # w => cur[v] # Actor(w) /\ new[v] # Actor(w)
      /\ new[w] # NoCell => cur[w] # Actor(w)
      /\ \A i \in DOMAIN ring : ring[i] # Actor(w)
  BY <1>2, CellAssumption DEF IInv, Apart, Actor
<1> QED BY <1>1, <1>2, <1>3, <1>4, <1>5, <1>6

\* A cell that fails to load is at the error path of cell_new when it is destroyed.
LEMMA Failed ==
  ASSUME IInv, NEW w \in Thread, pc[w] = "failing"
  PROVE  Actor(w) \in Cell /\ Actor(w) \in alloc /\ (new[w] # NoCell \/ w = main)
<1>1. Actor(w) \in Cell /\ Actor(w) \in alloc
  BY ActorType, ActorAllocated
<1>2. new[w] # NoCell \/ w = main
  BY DEF IInv, Phases, Thread
<1> QED BY <1>1, <1>2

-----------------------------------------------------------------------------
(* Types                                                                   *)

\* A step keeps the types of the threads' variables.
LEMMA ThreadTypesStep ==
  ASSUME IInv, [Next]_vars
  PROVE  ThreadTypes'
<1> USE ThreadAssumption, CellAssumption
<1> USE DEF IInv, TypeOK, ThreadTypes, Thread, Location, At, Goto, threads
<1>1. ASSUME NEW w \in Thread, Dispatch(w) PROVE ThreadTypes'
  <2>1. CASE Take(w)
    <3> Head(ring) \in Cell
      BY <2>1, RingHead DEF Take
    <3> QED BY <2>1 DEF Take
  <2>2. CASE DispatchQuit(w)
    BY <2>2 DEF DispatchQuit
  <2>3. CASE DispatchClose(w)
    BY <2>3 DEF DispatchClose
  <2>4. CASE DispatchEmpty(w)
    BY <2>4 DEF DispatchEmpty
  <2>5. CASE DispatchMessage(w)
    BY <2>5 DEF DispatchMessage
  <2>6. CASE EndMessage(w)
    BY <2>6 DEF EndMessage, Release
  <2>7. CASE PushBack(w)
    BY <2>7 DEF PushBack
  <2> QED BY <1>1, <2>1, <2>2, <2>3, <2>4, <2>5, <2>6, <2>7 DEF Dispatch
<1>2. ASSUME NEW w \in Thread, Dispose(w) PROVE ThreadTypes'
  <2>1. CASE SetQuit(w)
    BY <2>1 DEF SetQuit
  <2>2. CASE TrashMessage(w)
    BY <2>2 DEF TrashMessage
  <2>3. CASE EndTrash(w)
    BY <2>3 DEF EndTrash, Release
  <2>4. ASSUME NEW x \in Cell, Finalize(w, x) PROVE ThreadTypes'
    BY <2>4 DEF Finalize, Release
  <2>5. CASE EndClosing(w)
    BY <2>5 DEF EndClosing
  <2>6. CASE EndFailing(w)
    BY <2>6 DEF EndFailing
  <2>7. CASE Destroy(w)
    <3>1. \E l \in Location : pc' = [pc EXCEPT ![w] = l]
      BY <2>7 DEF Destroy, Caller
    <3>2. CASE cur' = cur
      BY <2>7, <3>1, <3>2 DEF Destroy
    <3>3. CASE cur' = [cur EXCEPT ![w] = NoCell]
      BY <2>7, <3>1, <3>3 DEF Destroy
    <3> QED BY <2>7, <3>2, <3>3 DEF Destroy
  <2>8. CASE Decrement(w)
    BY <2>8 DEF Decrement
  <2> QED BY <1>2, <2>1, <2>2, <2>3, <2>4, <2>5, <2>6, <2>7, <2>8 DEF Dispose
<1>3. ASSUME NEW w \in Thread, Loading(w) PROVE ThreadTypes'
  <2>1. CASE EndLoad(w)
    BY <2>1 DEF EndLoad, Caller
  <2>2. CASE FailLoad(w)
    BY <2>2 DEF FailLoad
  <2> QED BY <1>3, <2>1, <2>2 DEF Loading
<1>4. ASSUME NEW w \in Thread, Call(w) PROVE ThreadTypes'
  <2>1. ASSUME NEW x \in Cell, NEW msg \in Message, Send(w, x, msg) PROVE ThreadTypes'
    BY <2>1 DEF Send
  <2>2. ASSUME NEW x \in Cell, FailToPack(w, x) PROVE ThreadTypes'
    BY <2>2 DEF FailToPack
  <2>3. ASSUME NEW x \in Cell, Collect(w, x) PROVE ThreadTypes'
    <3>1. \E z \in Cell \union {NoCell} : zero' = [zero EXCEPT ![w] = z]
      BY <2>3 DEF Collect, Release
    <3>2. UNCHANGED <<pc, cur, new, found, timer>>
      BY <2>3 DEF Collect, Release
    <3> QED BY <2>3, <3>1, <3>2
  <2>4. ASSUME NEW x \in Cell, Kill(w, x) PROVE ThreadTypes'
    BY <2>4 DEF Kill
  <2>5. ASSUME NEW n \in Cell, Launch(w, n) PROVE ThreadTypes'
    BY <2>5 DEF Launch
  <2> QED BY <1>4, <2>1, <2>2, <2>3, <2>4, <2>5 DEF Call
<1>5. ASSUME NEW w \in Worker, EndRound(w) PROVE ThreadTypes'
  BY <1>5 DEF EndRound
<1>6. CASE StartThreads
  BY <1>6 DEF StartThreads
<1>7. CASE Tick
  BY <1>7 DEF Tick
<1>8. CASE Return
  BY <1>8 DEF Return
<1>9. CASE StopTimer \/ Stopped \/ UNCHANGED vars
  BY <1>9 DEF StopTimer, Stopped, vars
<1> QED BY <1>1, <1>2, <1>3, <1>4, <1>5, <1>6, <1>7, <1>8, <1>9 DEF Next

\* A step keeps the types of the queues.
LEMMA QueueTypesStep ==
  ASSUME IInv, [Next]_vars
  PROVE  QueueTypes'
<1> USE ThreadAssumption, CellAssumption
<1> USE DEF IInv, TypeOK, QueueTypes, Phases, Booting, Thread, Location, At, Goto, cells
<1>1. ASSUME NEW w \in Thread, Dispatch(w) PROVE QueueTypes'
  <2>1. CASE Take(w)
    <3> Tail(ring) \in Seq(Cell)
      BY <2>1, RingHead DEF Take
    <3> QED BY <2>1 DEF Take
  <2>2. CASE DispatchQuit(w)
    BY <2>2 DEF DispatchQuit
  <2>3. CASE DispatchClose(w)
    BY <2>3 DEF DispatchClose
  <2>4. CASE DispatchEmpty(w)
    <3>1. cur[w] \in Cell /\ ring' = ring
      BY <2>4, ActorType DEF DispatchEmpty
    <3>2. CASE mq' = mq
      BY <3>1, <3>2
    <3>3. CASE mq[cur[w]] # <<>> /\ mq' = [mq EXCEPT ![cur[w]] = Tail(@)]
      BY <3>1, <3>3, QueueHead
    <3> QED BY <2>4, <3>2, <3>3 DEF DispatchEmpty
  <2>5. CASE DispatchMessage(w)
    <3>1. cur[w] \in Cell
      BY <2>5, ActorType DEF DispatchMessage
    <3>2. mq[cur[w]] # <<>> /\ mq' = [mq EXCEPT ![cur[w]] = Tail(@)] /\ ring' = ring
      BY <2>5 DEF DispatchMessage, NextMessage
    <3>3. Tail(mq[cur[w]]) \in Seq(Message)
      BY <3>1, <3>2, QueueHead
    <3> QED BY <3>1, <3>2, <3>3
  <2>6. CASE EndMessage(w)
    BY <2>6 DEF EndMessage
  <2>7. CASE PushBack(w)
    <3> cur[w] \in Cell
      BY <2>7, ActorType DEF PushBack
    <3> QED BY <2>7, RingAppend DEF PushBack
  <2> QED BY <1>1, <2>1, <2>2, <2>3, <2>4, <2>5, <2>6, <2>7 DEF Dispatch
<1>2. ASSUME NEW w \in Thread, Dispose(w) PROVE QueueTypes'
  <2>1. CASE SetQuit(w)
    BY <2>1 DEF SetQuit
  <2>2. CASE TrashMessage(w)
    <3>1. cur[w] \in Cell
      BY <2>2, ActorType DEF TrashMessage
    <3>2. mq[cur[w]] # <<>> /\ mq' = [mq EXCEPT ![cur[w]] = Tail(@)] /\ ring' = ring
      BY <2>2 DEF TrashMessage, NextMessage
    <3>3. Tail(mq[cur[w]]) \in Seq(Message)
      BY <3>1, <3>2, QueueHead
    <3> QED BY <3>1, <3>2, <3>3
  <2>3. CASE EndTrash(w)
    BY <2>3 DEF EndTrash
  <2>4. ASSUME NEW x \in Cell, Finalize(w, x) PROVE QueueTypes'
    BY <2>4 DEF Finalize
  <2>5. CASE EndClosing(w)
    BY <2>5 DEF EndClosing
  <2>6. CASE EndFailing(w)
    BY <2>6 DEF EndFailing
  <2>7. CASE Destroy(w)
    <3> Actor(w) \in Cell
      BY <2>7, ActorType DEF Destroy
    <3> QED BY <2>7 DEF Destroy
  <2>8. CASE Decrement(w)
    BY <2>8 DEF Decrement
  <2> QED BY <1>2, <2>1, <2>2, <2>3, <2>4, <2>5, <2>6, <2>7, <2>8 DEF Dispose
<1>3. ASSUME NEW w \in Thread, Loading(w) PROVE QueueTypes'
  <2>1. CASE EndLoad(w)
    BY <2>1 DEF EndLoad
  <2>2. CASE FailLoad(w)
    BY <2>2 DEF FailLoad
  <2> QED BY <1>3, <2>1, <2>2 DEF Loading
<1>4. ASSUME NEW w \in Thread, Call(w) PROVE QueueTypes'
  <2>1. ASSUME NEW x \in Cell, NEW msg \in Message, Send(w, x, msg) PROVE QueueTypes'
    BY <2>1 DEF Send
  <2>2. ASSUME NEW x \in Cell, FailToPack(w, x) PROVE QueueTypes'
    BY <2>2 DEF FailToPack
  <2>3. ASSUME NEW x \in Cell, Collect(w, x) PROVE QueueTypes'
    BY <2>3 DEF Collect
  <2>4. ASSUME NEW x \in Cell, Kill(w, x) PROVE QueueTypes'
    BY <2>4 DEF Kill
  <2>5. ASSUME NEW n \in Cell, Launch(w, n) PROVE QueueTypes'
    BY <2>5 DEF Launch, InLua
  <2> QED BY <1>4, <2>1, <2>2, <2>3, <2>4, <2>5 DEF Call
<1>5. ASSUME NEW w \in Worker, EndRound(w) PROVE QueueTypes'
  BY <1>5 DEF EndRound
<1>6. CASE StartThreads
  BY <1>6 DEF StartThreads
<1>7. CASE Tick
  BY <1>7 DEF Tick
<1>8. CASE Return
  BY <1>8 DEF Return
<1>9. CASE StopTimer \/ Stopped \/ UNCHANGED vars
  BY <1>9 DEF StopTimer, Stopped, vars
<1> QED BY <1>1, <1>2, <1>3, <1>4, <1>5, <1>6, <1>7, <1>8, <1>9 DEF Next

\* A step keeps the types of the cells' flags and Lua states.
LEMMA StateTypesStep ==
  ASSUME IInv, [Next]_vars
  PROVE  StateTypes'
<1> USE ThreadAssumption, CellAssumption
<1> USE DEF IInv, TypeOK, StateTypes, Thread, At, cells
<1>1. ASSUME NEW w \in Thread, Dispatch(w) PROVE StateTypes'
  <2>1. CASE Take(w)
    BY <2>1 DEF Take
  <2>2. CASE DispatchQuit(w)
    BY <2>2 DEF DispatchQuit
  <2>3. CASE DispatchClose(w)
    BY <2>3 DEF DispatchClose
  <2>4. CASE DispatchEmpty(w)
    BY <2>4 DEF DispatchEmpty
  <2>5. CASE DispatchMessage(w)
    <3>1. cur[w] \in Cell
      BY <2>5, ActorType DEF DispatchMessage
    <3>2. mq[cur[w]] # <<>> /\ map' = [map EXCEPT ![cur[w]] = @ \union Head(mq[cur[w]])]
      BY <2>5 DEF DispatchMessage, NextMessage
    <3>3. Head(mq[cur[w]]) \subseteq Cell
      BY <3>1, <3>2, QueueHead
    <3> QED BY <2>5, <3>1, <3>2, <3>3 DEF DispatchMessage
  <2>6. CASE EndMessage(w)
    BY <2>6 DEF EndMessage
  <2>7. CASE PushBack(w)
    BY <2>7 DEF PushBack
  <2> QED BY <1>1, <2>1, <2>2, <2>3, <2>4, <2>5, <2>6, <2>7 DEF Dispatch
<1>2. ASSUME NEW w \in Thread, Dispose(w) PROVE StateTypes'
  <2>1. CASE SetQuit(w)
    BY <2>1 DEF SetQuit
  <2>2. CASE TrashMessage(w)
    <3>1. cur[w] \in Cell
      BY <2>2, ActorType DEF TrashMessage
    <3>2. mq[cur[w]] # <<>> /\ map' = [map EXCEPT ![cur[w]] = @ \union Head(mq[cur[w]])]
      BY <2>2 DEF TrashMessage, NextMessage
    <3>3. Head(mq[cur[w]]) \subseteq Cell
      BY <3>1, <3>2, QueueHead
    <3> QED BY <2>2, <3>1, <3>2, <3>3 DEF TrashMessage
  <2>3. CASE EndTrash(w)
    BY <2>3 DEF EndTrash
  <2>4. ASSUME NEW x \in Cell, Finalize(w, x) PROVE StateTypes'
    <3>1. \/ map' = map /\ dying' = [dying EXCEPT ![Actor(w)] = @ \ {x}]
          \/ dying' = dying /\ map' = [map EXCEPT ![Actor(w)] = @ \ {x}]
      BY <2>4 DEF Finalize
    <3>2. UNCHANGED <<alloc, L, close, quit>>
      BY <2>4 DEF Finalize
    <3>3. Actor(w) \in Cell
      BY <2>4, ActorType DEF Finalize, Closing, InLua
    <3> QED
      <4>1. CASE map' = map /\ dying' = [dying EXCEPT ![Actor(w)] = @ \ {x}]
        BY <3>1, <3>2, <3>3, <4>1
      <4>2. CASE dying' = dying /\ map' = [map EXCEPT ![Actor(w)] = @ \ {x}]
        BY <3>1, <3>2, <3>3, <4>2
      <4> QED BY <3>1, <4>1, <4>2
  <2>5. CASE EndClosing(w)
    BY <2>5 DEF EndClosing
  <2>6. CASE EndFailing(w)
    BY <2>6 DEF EndFailing
  <2>7. CASE Destroy(w)
    BY <2>7 DEF Destroy
  <2>8. CASE Decrement(w)
    BY <2>8 DEF Decrement
  <2> QED BY <1>2, <2>1, <2>2, <2>3, <2>4, <2>5, <2>6, <2>7, <2>8 DEF Dispose
<1>3. ASSUME NEW w \in Thread, Loading(w) PROVE StateTypes'
  <2>1. CASE EndLoad(w)
    <3>1. new[w] \in Cell
      BY <2>1 DEF EndLoad, Phases
    <3> QED BY <2>1, <3>1 DEF EndLoad
  <2>2. CASE FailLoad(w)
    BY <2>2 DEF FailLoad
  <2> QED BY <1>3, <2>1, <2>2 DEF Loading
<1>4. ASSUME NEW w \in Thread, Call(w) PROVE StateTypes'
  <2>1. ASSUME NEW x \in Cell, NEW msg \in Message, Send(w, x, msg) PROVE StateTypes'
    BY <2>1 DEF Send
  <2>2. ASSUME NEW x \in Cell, FailToPack(w, x) PROVE StateTypes'
    BY <2>2 DEF FailToPack
  <2>3. ASSUME NEW x \in Cell, Collect(w, x) PROVE StateTypes'
    <3>1. map' = [map EXCEPT ![Actor(w)] = @ \ {x}]
          /\ (dying' = dying \/ dying' = [dying EXCEPT ![Actor(w)] = @ \union {x}])
          /\ UNCHANGED <<alloc, L, close, quit>>
      BY <2>3 DEF Collect, Release
    <3>2. Actor(w) \in Cell
      BY <2>3, ActorType DEF Collect, InLua
    <3>3. dying' \in [Cell -> SUBSET Cell]
      <4>1. CASE dying' = dying
        BY <4>1
      <4>2. CASE dying' = [dying EXCEPT ![Actor(w)] = @ \union {x}]
        BY <3>2, <4>2, <2>3
      <4> QED BY <3>1, <4>1, <4>2
    <3> QED BY <3>1, <3>2, <3>3
  <2>4. ASSUME NEW x \in Cell, Kill(w, x) PROVE StateTypes'
    BY <2>4 DEF Kill
  <2>5. ASSUME NEW n \in Cell, Launch(w, n) PROVE StateTypes'
    BY <2>5 DEF Launch
  <2> QED BY <1>4, <2>1, <2>2, <2>3, <2>4, <2>5 DEF Call
<1>5. ASSUME NEW w \in Worker, EndRound(w) PROVE StateTypes'
  BY <1>5 DEF EndRound
<1>6. CASE StartThreads
  BY <1>6 DEF StartThreads
<1>7. CASE Tick
  BY <1>7 DEF Tick
<1>8. CASE Return
  BY <1>8 DEF Return
<1>9. CASE StopTimer \/ Stopped \/ UNCHANGED vars
  BY <1>9 DEF StopTimer, Stopped, vars
<1> QED BY <1>1, <1>2, <1>3, <1>4, <1>5, <1>6, <1>7, <1>8, <1>9 DEF Next

\* A step keeps the counts integers; CountsStep shows that they stay natural.
LEMMA CountTypesStep ==
  ASSUME IInv, [Next]_vars
  PROVE  CountTypes'
<1> USE ThreadAssumption, CellAssumption
<1> USE DEF IInv, TypeOK, CountTypes, Thread, At, cells, Grabbed, Release
<1>1. ASSUME NEW w \in Thread, Dispatch(w) PROVE CountTypes'
  <2>1. CASE Take(w)
    BY <2>1 DEF Take
  <2>2. CASE DispatchQuit(w)
    BY <2>2 DEF DispatchQuit
  <2>3. CASE DispatchClose(w)
    <3> cur[w] \in Cell
      BY <2>3, ActorType DEF DispatchClose
    <3> QED BY <2>3 DEF DispatchClose
  <2>4. CASE DispatchEmpty(w)
    BY <2>4 DEF DispatchEmpty
  <2>5. CASE DispatchMessage(w)
    BY <2>5 DEF DispatchMessage, NextMessage, Unpacked
  <2>6. CASE EndMessage(w)
    <3> cur[w] \in Cell
      BY <2>6, ActorType DEF EndMessage
    <3> QED BY <2>6 DEF EndMessage
  <2>7. CASE PushBack(w)
    BY <2>7 DEF PushBack
  <2> QED BY <1>1, <2>1, <2>2, <2>3, <2>4, <2>5, <2>6, <2>7 DEF Dispatch
<1>2. ASSUME NEW w \in Thread, Dispose(w) PROVE CountTypes'
  <2>1. CASE SetQuit(w)
    BY <2>1 DEF SetQuit
  <2>2. CASE TrashMessage(w)
    BY <2>2 DEF TrashMessage, NextMessage, Unpacked
  <2>3. CASE EndTrash(w)
    <3> cur[w] \in Cell
      BY <2>3, ActorType DEF EndTrash
    <3> QED BY <2>3 DEF EndTrash
  <2>4. ASSUME NEW x \in Cell, Finalize(w, x) PROVE CountTypes'
    BY <2>4 DEF Finalize
  <2>5. CASE EndClosing(w)
    BY <2>5 DEF EndClosing
  <2>6. CASE EndFailing(w)
    BY <2>6 DEF EndFailing
  <2>7. CASE Destroy(w)
    <3>1. Actor(w) \in Cell
      BY <2>7, ActorType DEF Destroy
    <3>2. ASSUME NEW c \in Cell
          PROVE  Cardinality({i \in DOMAIN mq[Actor(w)] : c \in mq[Actor(w)][i]}) \in Nat
      <4>1. mq \in [Cell -> Seq(Message)]
        OBVIOUS
      <4> HIDE DEF IInv, TypeOK
      <4>2. Cardinality(Slots(mq, Actor(w), c)) \in Nat
        BY <3>1, <4>1, PlacesCleared
      <4> QED BY <4>2 DEF Slots
    <3>3. leaked' = Dropped(Actor(w)) /\ UNCHANGED <<ref, total>>
      BY <2>7 DEF Destroy
    <3>4. ref \in [Cell -> Int] /\ total \in Int /\ leaked \in [Cell -> Nat]
      OBVIOUS
    <3> HIDE DEF IInv, TypeOK
    <3>5. leaked' \in [Cell -> Nat]
      BY <3>2, <3>3, <3>4 DEF Dropped
    <3> QED BY <3>3, <3>4, <3>5 DEF CountTypes
  <2>8. CASE Decrement(w)
    BY <2>8 DEF Decrement, globalmq_dec
  <2> QED BY <1>2, <2>1, <2>2, <2>3, <2>4, <2>5, <2>6, <2>7, <2>8 DEF Dispose
<1>3. ASSUME NEW w \in Thread, Loading(w) PROVE CountTypes'
  <2>1. CASE EndLoad(w)
    <3>1. new[w] \in Cell
      BY <2>1 DEF EndLoad, Phases
    <3> QED BY <2>1, <3>1 DEF EndLoad
  <2>2. CASE FailLoad(w)
    BY <2>2 DEF FailLoad
  <2> QED BY <1>3, <2>1, <2>2 DEF Loading
<1>4. ASSUME NEW w \in Thread, Call(w) PROVE CountTypes'
  <2>1. ASSUME NEW x \in Cell, NEW msg \in Message, Send(w, x, msg) PROVE CountTypes'
    BY <2>1 DEF Send, Packed
  <2>2. ASSUME NEW x \in Cell, FailToPack(w, x) PROVE CountTypes'
    <3>1. ref' = [ref EXCEPT ![x] = @ + 1] /\ leaked' = [leaked EXCEPT ![x] = @ + 1] /\ total' = total
      BY <2>2 DEF FailToPack
    <3>2. ref' \in [Cell -> Int]
      BY <3>1
    <3>3. leaked' \in [Cell -> Nat]
      BY <3>1
    <3> QED BY <3>1, <3>2, <3>3
  <2>3. ASSUME NEW x \in Cell, Collect(w, x) PROVE CountTypes'
    BY <2>3 DEF Collect
  <2>4. ASSUME NEW x \in Cell, Kill(w, x) PROVE CountTypes'
    BY <2>4 DEF Kill
  <2>5. ASSUME NEW n \in Cell, Launch(w, n) PROVE CountTypes'
    BY <2>5 DEF Launch, globalmq_inc
  <2> QED BY <1>4, <2>1, <2>2, <2>3, <2>4, <2>5 DEF Call
<1>5. ASSUME NEW w \in Worker, EndRound(w) PROVE CountTypes'
  BY <1>5 DEF EndRound
<1>6. CASE StartThreads
  BY <1>6 DEF StartThreads
<1>7. CASE Tick
  BY <1>7 DEF Tick
<1>8. CASE Return
  BY <1>8 DEF Return
<1>9. CASE StopTimer \/ Stopped \/ UNCHANGED vars
  BY <1>9 DEF StopTimer, Stopped, vars
<1> QED BY <1>1, <1>2, <1>3, <1>4, <1>5, <1>6, <1>7, <1>8, <1>9 DEF Next

-----------------------------------------------------------------------------
(* Threads, ring and cells                                                 *)

\* A step keeps what each thread may be doing.
LEMMA PhasesStep ==
  ASSUME IInv, [Next]_vars
  PROVE  Phases'
<1> USE ThreadAssumption, CellAssumption
<1> USE DEF IInv, TypeOK, Phases, Booting, Thread, Location, At, Goto, threads
<1>1. ASSUME NEW w \in Thread, Dispatch(w) PROVE Phases'
  <2>1. CASE Take(w)
    <3> Head(ring) \in Cell
      BY <2>1, RingHead DEF Take
    <3> QED BY <2>1 DEF Take
  <2>2. CASE DispatchQuit(w)
    BY <2>2 DEF DispatchQuit
  <2>3. CASE DispatchClose(w)
    BY <2>3 DEF DispatchClose
  <2>4. CASE DispatchEmpty(w)
    BY <2>4 DEF DispatchEmpty
  <2>5. CASE DispatchMessage(w)
    BY <2>5 DEF DispatchMessage
  <2>6. CASE EndMessage(w)
    BY <2>6 DEF EndMessage, Release
  <2>7. CASE PushBack(w)
    BY <2>7 DEF PushBack
  <2> QED BY <1>1, <2>1, <2>2, <2>3, <2>4, <2>5, <2>6, <2>7 DEF Dispatch
<1>2. ASSUME NEW w \in Thread, Dispose(w) PROVE Phases'
  <2>1. CASE SetQuit(w)
    BY <2>1 DEF SetQuit
  <2>2. CASE TrashMessage(w)
    BY <2>2 DEF TrashMessage
  <2>3. CASE EndTrash(w)
    BY <2>3 DEF EndTrash, Release
  <2>4. ASSUME NEW x \in Cell, Finalize(w, x) PROVE Phases'
    BY <2>4 DEF Finalize, Release, Closing, InLua
  <2>5. CASE EndClosing(w)
    BY <2>5 DEF EndClosing
  <2>6. CASE EndFailing(w)
    BY <2>6 DEF EndFailing
  <2>7. CASE Destroy(w)
    BY <2>7 DEF Destroy, Caller, SystemOpen
  <2>8. CASE Decrement(w)
    BY <2>8 DEF Decrement
  <2> QED BY <1>2, <2>1, <2>2, <2>3, <2>4, <2>5, <2>6, <2>7, <2>8 DEF Dispose
<1>3. ASSUME NEW w \in Thread, Loading(w) PROVE Phases'
  <2>1. CASE EndLoad(w)
    BY <2>1 DEF EndLoad, Caller, SystemOpen
  <2>2. CASE FailLoad(w)
    BY <2>2 DEF FailLoad
  <2> QED BY <1>3, <2>1, <2>2 DEF Loading
<1>4. ASSUME NEW w \in Thread, Call(w) PROVE Phases'
  <2>1. ASSUME NEW x \in Cell, NEW msg \in Message, Send(w, x, msg) PROVE Phases'
    BY <2>1 DEF Send
  <2>2. ASSUME NEW x \in Cell, FailToPack(w, x) PROVE Phases'
    BY <2>2 DEF FailToPack
  <2>3. ASSUME NEW x \in Cell, Collect(w, x) PROVE Phases'
    BY <2>3 DEF Collect, Release, InLua
  <2>4. ASSUME NEW x \in Cell, Kill(w, x) PROVE Phases'
    BY <2>4 DEF Kill
  <2>5. ASSUME NEW n \in Cell, Launch(w, n) PROVE Phases'
    BY <2>5 DEF Launch, InLua, Actor, SystemOpen, States, KeepsOwn, TrashIsClosed
  <2> QED BY <1>4, <2>1, <2>2, <2>3, <2>4, <2>5 DEF Call
<1>5. ASSUME NEW w \in Worker, EndRound(w) PROVE Phases'
  BY <1>5 DEF EndRound
<1>6. CASE StartThreads
  BY <1>6 DEF StartThreads
<1>7. CASE Tick
  BY <1>7 DEF Tick
<1>8. CASE Return
  BY <1>8 DEF Return
<1>9. CASE StopTimer \/ Stopped \/ UNCHANGED vars
  BY <1>9 DEF StopTimer, Stopped, vars
<1> QED BY <1>1, <1>2, <1>3, <1>4, <1>5, <1>6, <1>7, <1>8, <1>9 DEF Next

\* A step leaves a cell in one place: Take pops it, PushBack and EndLoad push it.
LEMMA ApartStep ==
  ASSUME IInv, [Next]_vars
  PROVE  Apart'
<1> USE ThreadAssumption, CellAssumption
<1> USE DEF IInv, Phases, Booting, Thread, Location, At, Goto, threads, Apart
<1>1. ASSUME NEW w \in Thread, Dispatch(w) PROVE Apart'
  <2>1. CASE Take(w)
    BY <2>1, RingHead DEF Take
  <2>2. CASE DispatchQuit(w)
    BY <2>2 DEF DispatchQuit
  <2>3. CASE DispatchClose(w)
    BY <2>3 DEF DispatchClose
  <2>4. CASE DispatchEmpty(w)
    BY <2>4 DEF DispatchEmpty
  <2>5. CASE DispatchMessage(w)
    BY <2>5 DEF DispatchMessage
  <2>6. CASE EndMessage(w)
    BY <2>6 DEF EndMessage, Release
  <2>7. CASE PushBack(w)
    <3>1. cur[w] \in Cell /\ cur[w] # NoCell
      BY <2>7, ActorType DEF PushBack
    <3>2. ring' = Append(ring, cur[w]) /\ cur' = [cur EXCEPT ![w] = NoCell] /\ new' = new
      BY <2>7 DEF PushBack
    <3>3. PICK k : /\ k \notin DOMAIN ring /\ ring'[k] = cur[w]
                   /\ DOMAIN ring' = DOMAIN ring \union {k}
                   /\ \A i \in DOMAIN ring : ring'[i] = ring[i]
      BY <3>1, <3>2, RingAppend
    <3>4. new[w] = NoCell
      BY <2>7 DEF PushBack
    <3>5. \A i \in DOMAIN ring : ring[i] # cur[w]
      OBVIOUS
    <3>6. \A i, j \in DOMAIN ring' : ring'[i] = ring'[j] => i = j
      BY <3>3, <3>5
    <3>7. \A v \in Thread : v # w => cur[v] # cur[w] /\ new[v] # cur[w]
      BY <3>1
    <3>8. \A v \in Thread : cur'[v] # cur[w] /\ new'[v] # cur[w]
      BY <3>1, <3>2, <3>4, <3>7 DEF TypeOK
    <3>9. \A i \in DOMAIN ring : ring[i] # NoCell
      BY RingElements
    <3>10. \A i \in DOMAIN ring', v \in Thread : ring'[i] # cur'[v] /\ ring'[i] # new'[v]
      <4>1. \A i \in DOMAIN ring, v \in Thread : ring[i] # cur'[v] /\ ring[i] # new'[v]
        BY <3>2, <3>9, SMTT(20) DEF TypeOK
      <4> QED BY <3>3, <3>8, <4>1
    <3>11. \A v \in Thread : new'[v] = new[v] /\ (cur'[v] = cur[v] \/ cur'[v] = NoCell)
      BY <3>2 DEF TypeOK
    <3> QED BY <3>6, <3>10, <3>11
  <2> QED BY <1>1, <2>1, <2>2, <2>3, <2>4, <2>5, <2>6, <2>7 DEF Dispatch
<1>2. ASSUME NEW w \in Thread, Dispose(w) PROVE Apart'
  <2>1. CASE SetQuit(w)
    BY <2>1 DEF SetQuit
  <2>2. CASE TrashMessage(w)
    BY <2>2 DEF TrashMessage
  <2>3. CASE EndTrash(w)
    BY <2>3 DEF EndTrash, Release
  <2>4. ASSUME NEW x \in Cell, Finalize(w, x) PROVE Apart'
    BY <2>4 DEF Finalize, Release, Closing, InLua
  <2>5. CASE EndClosing(w)
    BY <2>5 DEF EndClosing
  <2>6. CASE EndFailing(w)
    BY <2>6 DEF EndFailing
  <2>7. CASE Destroy(w)
    <3>1. \A i \in DOMAIN ring : ring[i] # NoCell
      BY RingElements
    <3>2. new' = [new EXCEPT ![w] = NoCell] /\ ring' = ring
      BY <2>7 DEF Destroy
    <3>3. CASE cur' = cur
      BY <3>1, <3>2, <3>3 DEF TypeOK
    <3>4. CASE cur' = [cur EXCEPT ![w] = NoCell] /\ new[w] = NoCell
      BY <3>1, <3>2, <3>4 DEF TypeOK
    <3> QED BY <2>7, <3>3, <3>4 DEF Destroy
  <2>8. CASE Decrement(w)
    BY <2>8 DEF Decrement
  <2> QED BY <1>2, <2>1, <2>2, <2>3, <2>4, <2>5, <2>6, <2>7, <2>8 DEF Dispose
<1>3. ASSUME NEW w \in Thread, Loading(w) PROVE Apart'
  <2>1. CASE EndLoad(w)
    <3>1. new[w] \in Cell /\ new[w] # NoCell
      BY <2>1 DEF EndLoad, TypeOK
    <3>2. ring' = Append(ring, new[w]) /\ cur' = cur /\ new' = [new EXCEPT ![w] = NoCell]
      BY <2>1 DEF EndLoad
    <3>3. PICK k : /\ k \notin DOMAIN ring /\ ring'[k] = new[w]
                   /\ DOMAIN ring' = DOMAIN ring \union {k}
                   /\ \A i \in DOMAIN ring : ring'[i] = ring[i]
      BY <3>1, <3>2, RingAppend
    <3>4. \A i \in DOMAIN ring : ring[i] \in Cell
      BY RingElements
    <3>5. \A i, j \in DOMAIN ring' : ring'[i] = ring'[j] => i = j
      BY <3>3
    <3>6. \A v \in Thread : cur'[v] # new[w] /\ new'[v] # new[w]
                           /\ cur'[v] = cur[v] /\ (new'[v] = new[v] \/ new'[v] = NoCell)
      BY <3>1, <3>2 DEF TypeOK
    <3>7. \A i \in DOMAIN ring', v \in Thread : ring'[i] # cur'[v] /\ ring'[i] # new'[v]
      BY <3>3, <3>4, <3>6
    <3> QED BY <3>5, <3>6, <3>7
  <2>2. CASE FailLoad(w)
    BY <2>2 DEF FailLoad
  <2> QED BY <1>3, <2>1, <2>2 DEF Loading
<1>4. ASSUME NEW w \in Thread, Call(w) PROVE Apart'
  <2>1. ASSUME NEW x \in Cell, NEW msg \in Message, Send(w, x, msg) PROVE Apart'
    BY <2>1 DEF Send
  <2>2. ASSUME NEW x \in Cell, FailToPack(w, x) PROVE Apart'
    BY <2>2 DEF FailToPack
  <2>3. ASSUME NEW x \in Cell, Collect(w, x) PROVE Apart'
    BY <2>3 DEF Collect, Release, InLua
  <2>4. ASSUME NEW x \in Cell, Kill(w, x) PROVE Apart'
    BY <2>4 DEF Kill
  <2>5. ASSUME NEW n \in Cell, Launch(w, n) PROVE Apart'
    <3>1. new' = [new EXCEPT ![w] = n] /\ ring' = ring /\ cur' = cur
      BY <2>5 DEF Launch
    <3>2. n \notin alloc /\ n # NoCell /\ \A i \in DOMAIN ring : ring[i] \in alloc
      BY <2>5 DEF Launch, NoDangling, ToSet
    <3>3. \A v \in Thread : cur[v] # n /\ new[v] # n
      BY <3>2 DEF NoDangling
    <3>4. \A v \in Thread : new'[v] = IF v = w THEN n ELSE new[v]
      BY <3>1 DEF TypeOK
    <3> QED BY <3>1, <3>2, <3>3, <3>4
  <2> QED BY <1>4, <2>1, <2>2, <2>3, <2>4, <2>5 DEF Call
<1>5. ASSUME NEW w \in Worker, EndRound(w) PROVE Apart'
  BY <1>5 DEF EndRound
<1>6. CASE StartThreads
  <2>1. cur[main] = system /\ system # NoCell
    BY <1>6 DEF StartThreads
  <2>2. ring' = Append(ring, system) /\ cur' = [cur EXCEPT ![main] = NoCell] /\ new' = new
    BY <1>6 DEF StartThreads
  <2>3. PICK k : /\ k \notin DOMAIN ring /\ ring'[k] = system
                 /\ DOMAIN ring' = DOMAIN ring \union {k}
                 /\ \A i \in DOMAIN ring : ring'[i] = ring[i]
    BY <2>1, <2>2, RingAppend
  <2>4. \A i \in DOMAIN ring : ring[i] # NoCell /\ ring[i] # system
    BY <2>1, RingElements
  <2>5. \A v \in Thread : new[v] # system
    BY <2>1
  <2>6. \A i, j \in DOMAIN ring' : ring'[i] = ring'[j] => i = j
    BY <2>3, <2>4
  <2>7. \A v \in Thread : cur'[v] # system /\ new'[v] # system
                         /\ new'[v] = new[v] /\ (cur'[v] = cur[v] \/ cur'[v] = NoCell)
    BY <2>1, <2>2, <2>5 DEF TypeOK
  <2>8. \A i \in DOMAIN ring', v \in Thread : ring'[i] # cur'[v] /\ ring'[i] # new'[v]
    BY <2>3, <2>4, <2>7
  <2> QED BY <2>6, <2>7, <2>8
<1>7. CASE Tick
  BY <1>7 DEF Tick
<1>8. CASE Return
  BY <1>8 DEF Return
<1>9. CASE StopTimer \/ Stopped \/ UNCHANGED vars
  BY <1>9 DEF StopTimer, Stopped, vars
<1> QED BY <1>1, <1>2, <1>3, <1>4, <1>5, <1>6, <1>7, <1>8, <1>9 DEF Next

-----------------------------------------------------------------------------
(* Reference counts                                                        *)

\* A step that changes no count, or one that does.
LEMMA AccountSame ==
  ASSUME IInv, UNCHANGED <<ref, leaked, map, dying, mq>>,
         \A v \in Thread, c \in Cell : Dispatching(v, c)' <=> Dispatching(v, c)
  PROVE  Account'
<1>1. ASSUME NEW c \in Cell
      PROVE  Runs(c)' = Runs(c)
  BY DEF Runs
<1>2. Account
  BY Accounts DEF Account
<1> QED BY <1>1, <1>2 DEF Account

\* The dispatches of a cell are as many as before if none begins or ends.
LEMMA RunsSame ==
  ASSUME IInv, NEW c \in Cell,
         \A v \in Thread : Dispatching(v, c)' <=> Dispatching(v, c)
  PROVE  Cardinality(Runs(c))' = Cardinality(Runs(c))
<1>1. Runs(c)' = Runs(c)
  BY DEF Runs
<1> QED BY <1>1

\* Thread w begins, or ends, a dispatch of d.
LEMMA RunsChange ==
  ASSUME IInv, NEW c \in Cell, NEW w \in Thread,
         \A v \in Thread \ {w} : Dispatching(v, c)' <=> Dispatching(v, c)
  PROVE  /\ (Dispatching(w, c)' <=> Dispatching(w, c)) =>
              Cardinality(Runs(c))' = Cardinality(Runs(c))
         /\ Dispatching(w, c)' /\ ~Dispatching(w, c) =>
              Cardinality(Runs(c))' = Cardinality(Runs(c)) + 1
         /\ Dispatching(w, c) /\ ~Dispatching(w, c)' =>
              Cardinality(Runs(c))' = Cardinality(Runs(c)) - 1
<1>1. Runs(c)' \ {w} = Runs(c) \ {w}
  BY DEF Runs
<1>2. (w \in Runs(c)' <=> Dispatching(w, c)') /\ (w \in Runs(c) <=> Dispatching(w, c))
  BY DEF Runs
<1>3. IsFiniteSet(Runs(c))
  BY Accounts
<1> QED BY <1>1, <1>2, <1>3, OneElement

\* A step changes a count by what it changes of what refers to the cell:
\* cell_grab and cell_release, data_pack and data_unpack, llaunch.
LEMMA AccountStep ==
  ASSUME IInv, [Next]_vars
  PROVE  Account'
<1> USE ThreadAssumption, CellAssumption
<1>1. ASSUME NEW w \in Thread, Dispatch(w) PROVE Account'
  <2>1. CASE Take(w)
    <3>1. UNCHANGED <<ref, leaked, map, dying, mq>>
      BY <2>1 DEF Take, cells
    <3>2. \A v \in Thread, c \in Cell : Dispatching(v, c)' <=> Dispatching(v, c)
      BY <2>1 DEF Take, Dispatching, Phases, Booting, Thread, At, Goto, IInv, TypeOK, cells, threads
    <3> QED BY <3>1, <3>2, AccountSame
  <2>2. CASE DispatchQuit(w)
    <3>1. UNCHANGED <<ref, leaked, map, dying, mq>>
      BY <2>2 DEF DispatchQuit, cells
    <3>2. \A v \in Thread, c \in Cell : Dispatching(v, c)' <=> Dispatching(v, c)
      BY <2>2 DEF DispatchQuit, Dispatching, Phases, Booting, Thread, At, Goto, IInv, TypeOK, cells, threads
    <3> QED BY <3>1, <3>2, AccountSame
  <2>3. CASE DispatchClose(w)
    <3>1. cur[w] \in Cell /\ ref' = [ref EXCEPT ![cur[w]] = @ + 1] /\ UNCHANGED <<leaked, map, dying, mq>>
      BY <2>3, ActorType DEF DispatchClose, At, Grabbed
    <3>2. ASSUME NEW c \in Cell
          PROVE  ref'[c] = Cardinality(Holders(map, c))' + Cardinality(Holders(dying, c))'
                           + Cardinality(Places(mq, c))' + Cardinality(Runs(c))' + leaked'[c]
      <4>1. \A v \in Thread \ {w} : Dispatching(v, c)' <=> Dispatching(v, c)
        BY <2>3 DEF DispatchClose, Dispatching, Phases, Booting, Thread, At, Goto, IInv, TypeOK, cells, threads
      <4>2. ~Dispatching(w, c) /\ (Dispatching(w, c)' <=> c = cur[w])
        BY <2>3 DEF DispatchClose, Dispatching, Phases, Booting, Thread, At, Goto, IInv, TypeOK, cells, threads
      <4>3. IF c = cur[w] THEN Cardinality(Runs(c))' = Cardinality(Runs(c)) + 1 /\ ref'[c] = ref[c] + 1
                          ELSE Cardinality(Runs(c))' = Cardinality(Runs(c)) /\ ref'[c] = ref[c]
        BY <3>1, <4>1, <4>2, RunsChange DEF IInv, TypeOK
      <4> QED BY <3>1, <4>3, Accounts
    <3> QED BY <3>2 DEF Account
  <2>4. CASE DispatchEmpty(w)
    <3>0. w \in Thread /\ pc[w] = "lock" /\ cur[w] = Actor(w)
      BY <2>4 DEF DispatchEmpty, At, Actor, Phases, IInv, Thread
    <3>1. mq' = mq
      <4>1. CASE mq[cur[w]] = <<>>
        BY <2>4, <4>1 DEF DispatchEmpty
      <4>2. CASE mq[cur[w]] # <<>>
        <5>1. ~L[Actor(w)]
          BY <2>4, <3>0, <4>2 DEF DispatchEmpty
        <5> QED BY <3>0, <4>2, <5>1, Emptied DEF FailedToLoad
      <4> QED BY <4>1, <4>2
    <3>2. UNCHANGED <<ref, leaked, map, dying>>
      BY <2>4 DEF DispatchEmpty
    <3>3. \A v \in Thread, c \in Cell : Dispatching(v, c)' <=> Dispatching(v, c)
      BY <2>4 DEF DispatchEmpty, Dispatching, Phases, Booting, Thread, At, Goto, IInv, TypeOK, cells, threads
    <3> QED BY <3>1, <3>2, <3>3, AccountSame
  <2>5. CASE DispatchMessage(w)
    <3>1. cur[w] \in Cell /\ mq[cur[w]] # <<>> /\ UNCHANGED <<leaked, dying>>
          /\ mq' = Popped(mq, cur[w])
          /\ map' = Put(map, cur[w], map[cur[w]] \union Head(mq[cur[w]]))
      BY <2>5, ActorType DEF DispatchMessage, At, NextMessage, Popped, Put
    <3>2. ref' = Unpacked(Grabbed(ref, cur[w]), cur[w], Head(mq[cur[w]]))
      BY <2>5 DEF DispatchMessage, NextMessage
    <3>3. ASSUME NEW c \in Cell
          PROVE  ref'[c] = Cardinality(Holders(map', c)) + Cardinality(Holders(dying', c))
                           + Cardinality(Places(mq', c)) + Cardinality(Runs(c))' + leaked'[c]
      <4>1. PICK r \in {0, 1} : r = 1 <=> c = cur[w]
        OBVIOUS
      <4>2. PICK g : g = Head(mq[cur[w]])
        OBVIOUS
      <4>3. PICK a \in {0, 1}, b \in {0, 1} :
              (a = 1 <=> c \in g) /\ (b = 1 <=> c \in g /\ c \in map[cur[w]])
        OBVIOUS
      <4>4. mq \in [Cell -> Seq(Message)] /\ map \in [Cell -> SUBSET Cell]
        BY DEF IInv, TypeOK
      <4>5. Cardinality(Places(mq', c)) = Cardinality(Places(mq, c)) - a
        <5>1. /\ c \in Head(mq[cur[w]]) =>
                   Cardinality(Places(Popped(mq, cur[w]), c)) = Cardinality(Places(mq, c)) - 1
              /\ c \notin Head(mq[cur[w]]) =>
                   Cardinality(Places(Popped(mq, cur[w]), c)) = Cardinality(Places(mq, c))
          BY <3>1, <4>4, PlacesPopped
        <5>2. Cardinality(Places(mq, c)) \in Nat
          BY Accounts
        <5>3. CASE a = 1
          BY <3>1, <4>2, <4>3, <5>1, <5>3
        <5>4. CASE a = 0
          BY <3>1, <4>2, <4>3, <5>1, <5>2, <5>4
        <5> QED BY <5>3, <5>4
      <4>6. Cardinality(Holders(map', c)) = Cardinality(Holders(map, c)) + a - b
        <5>1. PICK T : T = map[cur[w]] \union g
          OBVIOUS
        <5>2. map' = Put(map, cur[w], T)
          BY <3>1, <4>2, <5>1
        <5>3. /\ (c \in T <=> c \in map[cur[w]]) =>
                   Cardinality(Holders(map', c)) = Cardinality(Holders(map, c))
              /\ c \in T /\ c \notin map[cur[w]] =>
                   Cardinality(Holders(map', c)) = Cardinality(Holders(map, c)) + 1
          BY <3>1, <5>2, MapPut
        <5>4. c \in T <=> c \in g \/ c \in map[cur[w]]
          BY <5>1
        <5>5. Cardinality(Holders(map, c)) \in Nat
          BY Accounts
        <5> QED BY <4>3, <5>3, <5>4, <5>5
      <4>7. Cardinality(Runs(c))' = Cardinality(Runs(c)) + r
        <5>1. \A v \in Thread \ {w} : Dispatching(v, c)' <=> Dispatching(v, c)
          BY <2>5 DEF DispatchMessage, Dispatching, Phases, Booting, Thread, At, Goto, IInv, TypeOK, cells, threads
        <5>2. ~Dispatching(w, c) /\ (Dispatching(w, c)' <=> c = cur[w])
          BY <2>5 DEF DispatchMessage, Dispatching, Phases, Booting, Thread, At, Goto, IInv, TypeOK, cells, threads
        <5> QED BY <4>1, <5>1, <5>2, Accounts, RunsChange
      <4>8. ref'[c] = ref[c] + r - b
        <5>1. ref'[c] = IF c \in Head(mq[cur[w]]) \intersect map[cur[w]] THEN (IF c = cur[w] THEN ref[c] + 1 ELSE ref[c]) - 1 ELSE (IF c = cur[w] THEN ref[c] + 1 ELSE ref[c])
          BY <3>1, <3>2 DEF Unpacked, Grabbed, IInv, TypeOK
        <5>2. ref[c] \in Int
          BY DEF IInv, TypeOK
        <5>3. (r = 0 => (IF c = cur[w] THEN ref[c] + 1 ELSE ref[c]) = ref[c]) /\ (r = 1 => (IF c = cur[w] THEN ref[c] + 1 ELSE ref[c]) = ref[c] + 1)
          BY <4>1
        <5>4. b = 1 <=> c \in Head(mq[cur[w]]) \intersect map[cur[w]]
          BY <4>2, <4>3
        <5>5. CASE b = 1
          BY <4>1, <5>1, <5>2, <5>3, <5>4, <5>5
        <5>6. CASE b = 0
          BY <4>1, <5>1, <5>2, <5>3, <5>4, <5>6
        <5> QED BY <4>3, <5>5, <5>6
      <4>9. Cardinality(Holders(dying', c)) = Cardinality(Holders(dying, c)) /\ leaked'[c] = leaked[c]
        BY <3>1
      <4> QED BY <4>1, <4>3, <4>5, <4>6, <4>7, <4>8, <4>9, Accounts
    <3> QED BY <3>3 DEF Account
  <2>6. CASE EndMessage(w)
    <3>1. cur[w] \in Cell /\ ref' = [ref EXCEPT ![cur[w]] = @ - 1] /\ UNCHANGED <<leaked, map, dying, mq>>
      BY <2>6, ActorType DEF EndMessage, At, Release
    <3>2. ASSUME NEW c \in Cell
          PROVE  ref'[c] = Cardinality(Holders(map, c))' + Cardinality(Holders(dying, c))'
                           + Cardinality(Places(mq, c))' + Cardinality(Runs(c))' + leaked'[c]
      <4>1. \A v \in Thread \ {w} : Dispatching(v, c)' <=> Dispatching(v, c)
        BY <2>6 DEF EndMessage, Dispatching, Phases, Booting, Thread, At, Goto, IInv, TypeOK, cells, threads
      <4>2. ~Dispatching(w, c)' /\ (Dispatching(w, c) <=> c = cur[w])
        BY <2>6 DEF EndMessage, Dispatching, Phases, Booting, Thread, At, Goto, IInv, TypeOK, cells, threads
      <4>3. IF c = cur[w] THEN Cardinality(Runs(c))' = Cardinality(Runs(c)) - 1 /\ ref'[c] = ref[c] - 1
                          ELSE Cardinality(Runs(c))' = Cardinality(Runs(c)) /\ ref'[c] = ref[c]
        BY <3>1, <4>1, <4>2, RunsChange DEF IInv, TypeOK
      <4> QED BY <3>1, <4>3, Accounts
    <3> QED BY <3>2 DEF Account
  <2>7. CASE PushBack(w)
    <3>1. UNCHANGED <<ref, leaked, map, dying, mq>>
      BY <2>7 DEF PushBack, cells
    <3>2. \A v \in Thread, c \in Cell : Dispatching(v, c)' <=> Dispatching(v, c)
      BY <2>7 DEF PushBack, Dispatching, Phases, Booting, Thread, At, Goto, IInv, TypeOK, cells, threads
    <3> QED BY <3>1, <3>2, AccountSame
  <2> QED BY <1>1, <2>1, <2>2, <2>3, <2>4, <2>5, <2>6, <2>7 DEF Dispatch
<1>2. ASSUME NEW w \in Thread, Dispose(w) PROVE Account'
  <2>1. CASE SetQuit(w)
    <3>1. UNCHANGED <<ref, leaked, map, dying, mq>>
      BY <2>1 DEF SetQuit, cells
    <3>2. \A v \in Thread, c \in Cell : Dispatching(v, c)' <=> Dispatching(v, c)
      BY <2>1 DEF SetQuit, Dispatching, Phases, Booting, Thread, At, Goto, IInv, TypeOK, cells, threads
    <3> QED BY <3>1, <3>2, AccountSame
  <2>2. CASE TrashMessage(w)
    <3>1. cur[w] \in Cell /\ mq[cur[w]] # <<>> /\ UNCHANGED <<leaked, dying>>
          /\ mq' = Popped(mq, cur[w])
          /\ map' = Put(map, cur[w], map[cur[w]] \union Head(mq[cur[w]]))
      BY <2>2, ActorType DEF TrashMessage, At, NextMessage, Popped, Put
    <3>2. ref' = Unpacked(ref, cur[w], Head(mq[cur[w]]))
      BY <2>2 DEF TrashMessage, NextMessage
    <3>3. ASSUME NEW c \in Cell
          PROVE  ref'[c] = Cardinality(Holders(map', c)) + Cardinality(Holders(dying', c))
                           + Cardinality(Places(mq', c)) + Cardinality(Runs(c))' + leaked'[c]
      <4>1. PICK r \in {0, 1} : r = 1 <=> FALSE
        OBVIOUS
      <4>2. PICK g : g = Head(mq[cur[w]])
        OBVIOUS
      <4>3. PICK a \in {0, 1}, b \in {0, 1} :
              (a = 1 <=> c \in g) /\ (b = 1 <=> c \in g /\ c \in map[cur[w]])
        OBVIOUS
      <4>4. mq \in [Cell -> Seq(Message)] /\ map \in [Cell -> SUBSET Cell]
        BY DEF IInv, TypeOK
      <4>5. Cardinality(Places(mq', c)) = Cardinality(Places(mq, c)) - a
        <5>1. /\ c \in Head(mq[cur[w]]) =>
                   Cardinality(Places(Popped(mq, cur[w]), c)) = Cardinality(Places(mq, c)) - 1
              /\ c \notin Head(mq[cur[w]]) =>
                   Cardinality(Places(Popped(mq, cur[w]), c)) = Cardinality(Places(mq, c))
          BY <3>1, <4>4, PlacesPopped
        <5>2. Cardinality(Places(mq, c)) \in Nat
          BY Accounts
        <5>3. CASE a = 1
          BY <3>1, <4>2, <4>3, <5>1, <5>3
        <5>4. CASE a = 0
          BY <3>1, <4>2, <4>3, <5>1, <5>2, <5>4
        <5> QED BY <5>3, <5>4
      <4>6. Cardinality(Holders(map', c)) = Cardinality(Holders(map, c)) + a - b
        <5>1. PICK T : T = map[cur[w]] \union g
          OBVIOUS
        <5>2. map' = Put(map, cur[w], T)
          BY <3>1, <4>2, <5>1
        <5>3. /\ (c \in T <=> c \in map[cur[w]]) =>
                   Cardinality(Holders(map', c)) = Cardinality(Holders(map, c))
              /\ c \in T /\ c \notin map[cur[w]] =>
                   Cardinality(Holders(map', c)) = Cardinality(Holders(map, c)) + 1
          BY <3>1, <5>2, MapPut
        <5>4. c \in T <=> c \in g \/ c \in map[cur[w]]
          BY <5>1
        <5>5. Cardinality(Holders(map, c)) \in Nat
          BY Accounts
        <5> QED BY <4>3, <5>3, <5>4, <5>5
      <4>7. Cardinality(Runs(c))' = Cardinality(Runs(c)) + r
        <5>1. \A v \in Thread : Dispatching(v, c)' <=> Dispatching(v, c)
          BY <2>2 DEF TrashMessage, Dispatching, Phases, Booting, Thread, At, Goto, IInv, TypeOK, cells, threads
        <5> QED BY <4>1, <5>1, Accounts, RunsSame
      <4>8. ref'[c] = ref[c] + r - b
        <5>1. ref'[c] = IF c \in Head(mq[cur[w]]) \intersect map[cur[w]] THEN ref[c] - 1 ELSE ref[c]
          BY <3>1, <3>2 DEF Unpacked, Grabbed, IInv, TypeOK
        <5>2. ref[c] \in Int
          BY DEF IInv, TypeOK
        <5>3. (r = 0 => ref[c] = ref[c]) /\ (r = 1 => ref[c] = ref[c] + 1)
          BY <4>1
        <5>4. b = 1 <=> c \in Head(mq[cur[w]]) \intersect map[cur[w]]
          BY <4>2, <4>3
        <5>5. CASE b = 1
          BY <4>1, <5>1, <5>2, <5>3, <5>4, <5>5
        <5>6. CASE b = 0
          BY <4>1, <5>1, <5>2, <5>3, <5>4, <5>6
        <5> QED BY <4>3, <5>5, <5>6
      <4>9. Cardinality(Holders(dying', c)) = Cardinality(Holders(dying, c)) /\ leaked'[c] = leaked[c]
        BY <3>1
      <4> QED BY <4>1, <4>3, <4>5, <4>6, <4>7, <4>8, <4>9, Accounts
    <3> QED BY <3>3 DEF Account
  <2>3. CASE EndTrash(w)
    <3>1. cur[w] \in Cell /\ ref' = [ref EXCEPT ![cur[w]] = @ - 1] /\ UNCHANGED <<leaked, map, dying, mq>>
      BY <2>3, ActorType DEF EndTrash, At, Release
    <3>2. ASSUME NEW c \in Cell
          PROVE  ref'[c] = Cardinality(Holders(map, c))' + Cardinality(Holders(dying, c))'
                           + Cardinality(Places(mq, c))' + Cardinality(Runs(c))' + leaked'[c]
      <4>1. \A v \in Thread \ {w} : Dispatching(v, c)' <=> Dispatching(v, c)
        BY <2>3 DEF EndTrash, Dispatching, Phases, Booting, Thread, At, Goto, IInv, TypeOK, cells, threads
      <4>2. ~Dispatching(w, c)' /\ (Dispatching(w, c) <=> c = cur[w])
        BY <2>3 DEF EndTrash, Dispatching, Phases, Booting, Thread, At, Goto, IInv, TypeOK, cells, threads
      <4>3. IF c = cur[w] THEN Cardinality(Runs(c))' = Cardinality(Runs(c)) - 1 /\ ref'[c] = ref[c] - 1
                          ELSE Cardinality(Runs(c))' = Cardinality(Runs(c)) /\ ref'[c] = ref[c]
        BY <3>1, <4>1, <4>2, RunsChange DEF IInv, TypeOK
      <4> QED BY <3>1, <4>3, Accounts
    <3> QED BY <3>2 DEF Account
  <2>4. ASSUME NEW x \in Cell, Finalize(w, x) PROVE Account'
    <3>0. mq \in [Cell -> Seq(Message)] /\ map \in [Cell -> SUBSET Cell]
          /\ dying \in [Cell -> SUBSET Cell] /\ ref \in [Cell -> Nat] /\ leaked \in [Cell -> Nat]
      BY DEF IInv, TypeOK
    <3>1. /\ Actor(w) \in Cell /\ ref' = [ref EXCEPT ![x] = @ - 1] /\ UNCHANGED <<leaked, mq>>
      BY <2>4, ActorType DEF Finalize, Closing, InLua, At, Release
    <3>2. CASE x \in dying[Actor(w)] /\ dying' = Put(dying, Actor(w), dying[Actor(w)] \ {x}) /\ map' = map
      <4>1. ASSUME NEW c \in Cell
            PROVE  ref'[c] = Cardinality(Holders(map', c)) + Cardinality(Holders(dying', c))
                             + Cardinality(Places(mq', c)) + Cardinality(Runs(c))' + leaked'[c]
        <5>0. PICK r \in {0, 1} : r = 1 <=> c = x
          OBVIOUS
        <5>1. Cardinality(Runs(c))' = Cardinality(Runs(c))
          <6>1. \A v \in Thread : Dispatching(v, c)' <=> Dispatching(v, c)
            BY <2>4 DEF Finalize, Dispatching, Phases, Booting, Thread, At, Goto, IInv, TypeOK, cells, threads
          <6> QED BY <6>1, RunsSame
        <5>2. ref'[c] = ref[c] - r
          <6>1. ref'[c] = IF r = 1 THEN ref[c] - 1 ELSE ref[c]
            BY <3>0, <3>1, <5>0
          <6>2. ref[c] \in Int
            BY <3>0
          <6>3. CASE r = 1
            BY <6>1, <6>2, <6>3
          <6>4. CASE r = 0
            BY <6>1, <6>2, <6>4
          <6> QED BY <5>0, <6>3, <6>4
        <5>3. Cardinality(Holders(dying', c)) = Cardinality(Holders(dying, c)) - r
          <6>1. PICK T : T = dying[Actor(w)] \ {x}
            OBVIOUS
          <6>2. dying' = Put(dying, Actor(w), T) /\ Actor(w) \in Cell
            BY <3>1, <3>2, <6>1
          <6>3. /\ (c \in T <=> c \in dying[Actor(w)]) =>
                     Cardinality(Holders(dying', c)) = Cardinality(Holders(dying, c))
                /\ c \in T /\ c \notin dying[Actor(w)] =>
                     Cardinality(Holders(dying', c)) = Cardinality(Holders(dying, c)) + 1
                /\ c \notin T /\ c \in dying[Actor(w)] =>
                     Cardinality(Holders(dying', c)) = Cardinality(Holders(dying, c)) - 1
            BY <6>2, DyingPut
          <6>4. Cardinality(Holders(dying, c)) \in Nat
            BY Accounts
          <6> QED BY <5>0, <3>1, <3>2, <6>1, <6>3, <6>4
        <5>4. /\ Cardinality(Holders(map', c)) = Cardinality(Holders(map, c))
              /\ Cardinality(Places(mq', c)) = Cardinality(Places(mq, c)) /\ leaked'[c] = leaked[c]
          BY <3>1, <3>2
        <5> QED BY <5>0, <5>1, <5>2, <5>3, <5>4, Accounts
      <4> QED BY <4>1 DEF Account
    <3>3. CASE x \in map[Actor(w)] /\ map' = Put(map, Actor(w), map[Actor(w)] \ {x}) /\ dying' = dying
      <4>1. ASSUME NEW c \in Cell
            PROVE  ref'[c] = Cardinality(Holders(map', c)) + Cardinality(Holders(dying', c))
                             + Cardinality(Places(mq', c)) + Cardinality(Runs(c))' + leaked'[c]
        <5>0. PICK r \in {0, 1} : r = 1 <=> c = x
          OBVIOUS
        <5>1. Cardinality(Runs(c))' = Cardinality(Runs(c))
          <6>1. \A v \in Thread : Dispatching(v, c)' <=> Dispatching(v, c)
            BY <2>4 DEF Finalize, Dispatching, Phases, Booting, Thread, At, Goto, IInv, TypeOK, cells, threads
          <6> QED BY <6>1, RunsSame
        <5>2. ref'[c] = ref[c] - r
          <6>1. ref'[c] = IF r = 1 THEN ref[c] - 1 ELSE ref[c]
            BY <3>0, <3>1, <5>0
          <6>2. ref[c] \in Int
            BY <3>0
          <6>3. CASE r = 1
            BY <6>1, <6>2, <6>3
          <6>4. CASE r = 0
            BY <6>1, <6>2, <6>4
          <6> QED BY <5>0, <6>3, <6>4
        <5>3. Cardinality(Holders(map', c)) = Cardinality(Holders(map, c)) - r
          <6>1. PICK T : T = map[Actor(w)] \ {x}
            OBVIOUS
          <6>2. map' = Put(map, Actor(w), T) /\ Actor(w) \in Cell
            BY <3>1, <3>3, <6>1
          <6>3. /\ (c \in T <=> c \in map[Actor(w)]) =>
                     Cardinality(Holders(map', c)) = Cardinality(Holders(map, c))
                /\ c \in T /\ c \notin map[Actor(w)] =>
                     Cardinality(Holders(map', c)) = Cardinality(Holders(map, c)) + 1
                /\ c \notin T /\ c \in map[Actor(w)] =>
                     Cardinality(Holders(map', c)) = Cardinality(Holders(map, c)) - 1
            BY <6>2, MapPut
          <6>4. Cardinality(Holders(map, c)) \in Nat
            BY Accounts
          <6> QED BY <5>0, <3>1, <3>3, <6>1, <6>3, <6>4
        <5>4. /\ Cardinality(Holders(dying', c)) = Cardinality(Holders(dying, c))
              /\ Cardinality(Places(mq', c)) = Cardinality(Places(mq, c)) /\ leaked'[c] = leaked[c]
          BY <3>1, <3>3
        <5> QED BY <5>0, <5>1, <5>2, <5>3, <5>4, Accounts
      <4> QED BY <4>1 DEF Account
    <3> QED BY <2>4, <3>2, <3>3 DEF Finalize, Put
  <2>5. CASE EndClosing(w)
    <3>1. UNCHANGED <<ref, leaked, map, dying, mq>>
      BY <2>5 DEF EndClosing, cells
    <3>2. \A v \in Thread, c \in Cell : Dispatching(v, c)' <=> Dispatching(v, c)
      BY <2>5 DEF EndClosing, Dispatching, Phases, Booting, Thread, At, Goto, IInv, TypeOK, cells, threads
    <3> QED BY <3>1, <3>2, AccountSame
  <2>6. CASE EndFailing(w)
    <3>1. UNCHANGED <<ref, leaked, map, dying, mq>>
      BY <2>6 DEF EndFailing, cells
    <3>2. \A v \in Thread, c \in Cell : Dispatching(v, c)' <=> Dispatching(v, c)
      BY <2>6 DEF EndFailing, Dispatching, Phases, Booting, Thread, At, Goto, IInv, TypeOK, cells, threads
    <3> QED BY <3>1, <3>2, AccountSame
  <2>7. CASE Destroy(w)
    <3>1. Actor(w) \in Cell /\ mq \in [Cell -> Seq(Message)]
      BY <2>7, ActorType DEF Destroy, At, IInv, TypeOK
    <3>2. /\ UNCHANGED <<ref, map, dying>>
          /\ mq' = Cleared(mq, Actor(w)) /\ leaked' = Dropped(Actor(w))
      BY <2>7 DEF Destroy, Cleared
    <3>3. \A v \in Thread, c \in Cell : Dispatching(v, c)' <=> Dispatching(v, c)
      BY <2>7 DEF Destroy, Caller, Dispatching, Phases, Booting, Thread, At, Goto, IInv, TypeOK, cells, threads
    <3>4. ASSUME NEW c \in Cell
          PROVE  ref'[c] = Cardinality(Holders(map, c))' + Cardinality(Holders(dying, c))'
                           + Cardinality(Places(mq, c))' + Cardinality(Runs(c))' + leaked'[c]
      <4>1. Cardinality(Runs(c))' = Cardinality(Runs(c))
        BY <3>3, RunsSame
      <4>2. leaked'[c] = leaked[c] + Cardinality(Slots(mq, Actor(w), c))
        BY <3>2 DEF Dropped, Slots
      <4>3. /\ Cardinality(Places(mq', c)) \in Nat /\ Cardinality(Slots(mq, Actor(w), c)) \in Nat
            /\ Cardinality(Places(mq, c)) =
                 Cardinality(Places(mq', c)) + Cardinality(Slots(mq, Actor(w), c))
        BY <3>1, <3>2, PlacesCleared
      <4>4. /\ ref'[c] = ref[c] /\ Cardinality(Holders(map', c)) = Cardinality(Holders(map, c))
            /\ Cardinality(Holders(dying', c)) = Cardinality(Holders(dying, c))
        BY <3>2
      <4> QED BY <4>1, <4>2, <4>3, <4>4, Accounts
    <3> QED BY <3>4 DEF Account
  <2>8. CASE Decrement(w)
    <3>1. UNCHANGED <<ref, leaked, map, dying, mq>>
      BY <2>8 DEF Decrement, cells
    <3>2. \A v \in Thread, c \in Cell : Dispatching(v, c)' <=> Dispatching(v, c)
      BY <2>8 DEF Decrement, Dispatching, Phases, Booting, Thread, At, Goto, IInv, TypeOK, cells, threads
    <3> QED BY <3>1, <3>2, AccountSame
  <2> QED BY <1>2, <2>1, <2>2, <2>3, <2>4, <2>5, <2>6, <2>7, <2>8 DEF Dispose
<1>3. ASSUME NEW w \in Thread, Loading(w) PROVE Account'
  <2>1. CASE EndLoad(w)
    <3>0. mq \in [Cell -> Seq(Message)] /\ map \in [Cell -> SUBSET Cell]
          /\ dying \in [Cell -> SUBSET Cell] /\ ref \in [Cell -> Nat] /\ leaked \in [Cell -> Nat]
      BY DEF IInv, TypeOK
    <3>1. /\ new[w] \in Cell /\ system \in Cell /\ UNCHANGED <<leaked, mq, dying>>
          /\ map' = Put(map, system, map[system] \union {new[w]})
          /\ ref' = IF new[w] \in map[system] THEN ref ELSE [ref EXCEPT ![new[w]] = @ + 1]
      BY <2>1 DEF EndLoad, Put, Grabbed, At, Phases, IInv, TypeOK
    <3>2. ASSUME NEW c \in Cell
          PROVE  ref'[c] = Cardinality(Holders(map', c)) + Cardinality(Holders(dying', c))
                           + Cardinality(Places(mq', c)) + Cardinality(Runs(c))' + leaked'[c]
      <4>0. PICK r \in {0, 1} : r = 1 <=> c = new[w] /\ c \notin map[system]
        OBVIOUS
      <4>1. Cardinality(Runs(c))' = Cardinality(Runs(c))
        <5>1. \A v \in Thread : Dispatching(v, c)' <=> Dispatching(v, c)
          BY <2>1 DEF Caller, EndLoad, Dispatching, Phases, Booting, Thread, At, Goto, IInv, TypeOK, cells, threads
        <5> QED BY <5>1, RunsSame
      <4>2. ref'[c] = ref[c] + r
        <5>1. ref'[c] = IF r = 1 THEN ref[c] + 1 ELSE ref[c]
          BY <3>0, <3>1, <4>0
        <5>2. ref[c] \in Int
          BY <3>0
        <5>3. CASE r = 1
          BY <5>1, <5>2, <5>3
        <5>4. CASE r = 0
          BY <5>1, <5>2, <5>4
        <5> QED BY <4>0, <5>3, <5>4
      <4>3. Cardinality(Holders(map', c)) = Cardinality(Holders(map, c)) + r
        <5>1. PICK T : T = map[system] \union {new[w]}
          OBVIOUS
        <5>2. map' = Put(map, system, T) /\ system \in Cell
          BY <3>1, <5>1
        <5>3. /\ (c \in T <=> c \in map[system]) =>
                   Cardinality(Holders(map', c)) = Cardinality(Holders(map, c))
              /\ c \in T /\ c \notin map[system] =>
                   Cardinality(Holders(map', c)) = Cardinality(Holders(map, c)) + 1
              /\ c \notin T /\ c \in map[system] =>
                   Cardinality(Holders(map', c)) = Cardinality(Holders(map, c)) - 1
          BY <5>2, MapPut
        <5>4. Cardinality(Holders(map, c)) \in Nat
          BY Accounts
        <5> QED BY <4>0, <3>1, <5>1, <5>3, <5>4
      <4>4. UNCHANGED <<dying, leaked, mq>>
        BY <3>1
      <4> QED BY <4>0, <4>1, <4>2, <4>3, <4>4, Accounts
    <3> QED BY <3>2 DEF Account
  <2>2. CASE FailLoad(w)
    <3>1. UNCHANGED <<ref, leaked, map, dying, mq>>
      BY <2>2 DEF FailLoad, cells
    <3>2. \A v \in Thread, c \in Cell : Dispatching(v, c)' <=> Dispatching(v, c)
      BY <2>2 DEF FailLoad, Dispatching, Phases, Booting, Thread, At, Goto, IInv, TypeOK, cells, threads
    <3> QED BY <3>1, <3>2, AccountSame
  <2> QED BY <1>3, <2>1, <2>2 DEF Loading
<1>4. ASSUME NEW w \in Thread, Call(w) PROVE Account'
  <2>1. ASSUME NEW x \in Cell, NEW msg \in Message, Send(w, x, msg) PROVE Account'
    <3>0. mq \in [Cell -> Seq(Message)] /\ map \in [Cell -> SUBSET Cell]
          /\ dying \in [Cell -> SUBSET Cell] /\ ref \in [Cell -> Nat] /\ leaked \in [Cell -> Nat]
      BY DEF IInv, TypeOK
    <3>1. /\ mq' = Pushed(mq, x, msg) /\ ref' = Packed(ref, msg)
          /\ UNCHANGED <<map, dying, leaked>>
      BY <2>1 DEF Send, Pushed
    <3>2. ASSUME NEW c \in Cell
          PROVE  ref'[c] = Cardinality(Holders(map', c)) + Cardinality(Holders(dying', c))
                           + Cardinality(Places(mq', c)) + Cardinality(Runs(c))' + leaked'[c]
      <4>0. PICK r \in {0, 1} : r = 1 <=> c \in msg
        OBVIOUS
      <4>1. Cardinality(Runs(c))' = Cardinality(Runs(c))
        <5>1. \A v \in Thread : Dispatching(v, c)' <=> Dispatching(v, c)
          BY <2>1 DEF Send, Dispatching, Phases, Booting, Thread, At, Goto, IInv, TypeOK, cells, threads
        <5> QED BY <5>1, RunsSame
      <4>2. ref'[c] = ref[c] + r
        <5>1. ref'[c] = IF r = 1 THEN ref[c] + 1 ELSE ref[c]
          BY <3>0, <3>1, <4>0 DEF Packed
        <5>2. ref[c] \in Int
          BY <3>0
        <5>3. CASE r = 1
          BY <5>1, <5>2, <5>3
        <5>4. CASE r = 0
          BY <5>1, <5>2, <5>4
        <5> QED BY <4>0, <5>3, <5>4
      <4>3. Cardinality(Places(mq', c)) = Cardinality(Places(mq, c)) + r
        <5>1. /\ c \in msg =>
                   Cardinality(Places(Pushed(mq, x, msg), c)) = Cardinality(Places(mq, c)) + 1
              /\ c \notin msg =>
                   Cardinality(Places(Pushed(mq, x, msg), c)) = Cardinality(Places(mq, c))
          BY <3>1, QueuePushed
        <5>2. Cardinality(Places(mq, c)) \in Nat
          BY Accounts
        <5>3. CASE r = 1
          BY <3>1, <4>0, <5>1, <5>3
        <5>4. CASE r = 0
          BY <3>1, <4>0, <5>1, <5>2, <5>4
        <5> QED BY <5>3, <5>4
      <4>4. UNCHANGED <<map, dying, leaked>>
        BY <3>1
      <4> QED BY <4>0, <4>1, <4>2, <4>3, <4>4, Accounts
    <3> QED BY <3>2 DEF Account
  <2>2. ASSUME NEW x \in Cell, FailToPack(w, x) PROVE Account'
    <3>0. mq \in [Cell -> Seq(Message)] /\ map \in [Cell -> SUBSET Cell]
          /\ dying \in [Cell -> SUBSET Cell] /\ ref \in [Cell -> Nat] /\ leaked \in [Cell -> Nat]
      BY DEF IInv, TypeOK
    <3>1. /\ leaked' = [leaked EXCEPT ![x] = @ + 1] /\ ref' = [ref EXCEPT ![x] = @ + 1]
          /\ UNCHANGED <<map, dying, mq>>
      BY <2>2 DEF FailToPack, Grabbed
    <3>2. ASSUME NEW c \in Cell
          PROVE  ref'[c] = Cardinality(Holders(map', c)) + Cardinality(Holders(dying', c))
                           + Cardinality(Places(mq', c)) + Cardinality(Runs(c))' + leaked'[c]
      <4>0. PICK r \in {0, 1} : r = 1 <=> c = x
        OBVIOUS
      <4>1. Cardinality(Runs(c))' = Cardinality(Runs(c))
        <5>1. \A v \in Thread : Dispatching(v, c)' <=> Dispatching(v, c)
          BY <2>2 DEF FailToPack, Dispatching, Phases, Booting, Thread, At, Goto, IInv, TypeOK, cells, threads
        <5> QED BY <5>1, RunsSame
      <4>2. ref'[c] = ref[c] + r /\ leaked'[c] = leaked[c] + r
        <5>1. /\ ref'[c] = IF r = 1 THEN ref[c] + 1 ELSE ref[c]
              /\ leaked'[c] = IF r = 1 THEN leaked[c] + 1 ELSE leaked[c]
          BY <3>0, <3>1, <4>0
        <5>2. ref[c] \in Int /\ leaked[c] \in Int
          BY <3>0
        <5>3. CASE r = 1
          BY <5>1, <5>2, <5>3
        <5>4. CASE r = 0
          BY <5>1, <5>2, <5>4
        <5> QED BY <4>0, <5>3, <5>4
      <4>3. UNCHANGED <<map, dying, mq>>
        BY <3>1
      <4> QED BY <4>0, <4>1, <4>2, <4>3, Accounts
    <3> QED BY <3>2 DEF Account
  <2>3. ASSUME NEW x \in Cell, Collect(w, x) PROVE Account'
    <3>0. mq \in [Cell -> Seq(Message)] /\ map \in [Cell -> SUBSET Cell]
          /\ dying \in [Cell -> SUBSET Cell] /\ ref \in [Cell -> Nat] /\ leaked \in [Cell -> Nat]
      BY DEF IInv, TypeOK
    <3>1. /\ Actor(w) \in Cell /\ UNCHANGED <<leaked, mq>>
          /\ map' = Put(map, Actor(w), map[Actor(w)] \ {x}) /\ x \in map[Actor(w)]
      BY <2>3, ActorType DEF Collect, InLua, At, Put
    <3>2. CASE /\ ref' = ref /\ x \notin dying[Actor(w)]
               /\ dying' = Put(dying, Actor(w), dying[Actor(w)] \union {x})
      <4>1. ASSUME NEW c \in Cell
            PROVE  ref'[c] = Cardinality(Holders(map', c)) + Cardinality(Holders(dying', c))
                             + Cardinality(Places(mq', c)) + Cardinality(Runs(c))' + leaked'[c]
        <5>0. PICK r \in {0, 1} : r = 1 <=> c = x
          OBVIOUS
        <5>1. Cardinality(Runs(c))' = Cardinality(Runs(c))
          <6>1. \A v \in Thread : Dispatching(v, c)' <=> Dispatching(v, c)
            BY <2>3 DEF Collect, Dispatching, Phases, Booting, Thread, At, Goto, IInv, TypeOK, cells, threads
          <6> QED BY <6>1, RunsSame
        <5>2. UNCHANGED <<ref, leaked, mq>>
          BY <3>1, <3>2
        <5>3. Cardinality(Holders(map', c)) = Cardinality(Holders(map, c)) - r
          <6>1. PICK T : T = map[Actor(w)] \ {x}
            OBVIOUS
          <6>2. map' = Put(map, Actor(w), T) /\ Actor(w) \in Cell
            BY <3>1, <3>2, <6>1
          <6>3. /\ (c \in T <=> c \in map[Actor(w)]) =>
                     Cardinality(Holders(map', c)) = Cardinality(Holders(map, c))
                /\ c \in T /\ c \notin map[Actor(w)] =>
                     Cardinality(Holders(map', c)) = Cardinality(Holders(map, c)) + 1
                /\ c \notin T /\ c \in map[Actor(w)] =>
                     Cardinality(Holders(map', c)) = Cardinality(Holders(map, c)) - 1
            BY <6>2, MapPut
          <6>4. Cardinality(Holders(map, c)) \in Nat
            BY Accounts
          <6> QED BY <5>0, <3>1, <3>2, <6>1, <6>3, <6>4
        <5>4. Cardinality(Holders(dying', c)) = Cardinality(Holders(dying, c)) + r
          <6>1. PICK T : T = dying[Actor(w)] \union {x}
            OBVIOUS
          <6>2. dying' = Put(dying, Actor(w), T) /\ Actor(w) \in Cell
            BY <3>1, <3>2, <6>1
          <6>3. /\ (c \in T <=> c \in dying[Actor(w)]) =>
                     Cardinality(Holders(dying', c)) = Cardinality(Holders(dying, c))
                /\ c \in T /\ c \notin dying[Actor(w)] =>
                     Cardinality(Holders(dying', c)) = Cardinality(Holders(dying, c)) + 1
                /\ c \notin T /\ c \in dying[Actor(w)] =>
                     Cardinality(Holders(dying', c)) = Cardinality(Holders(dying, c)) - 1
            BY <6>2, DyingPut
          <6>4. Cardinality(Holders(dying, c)) \in Nat
            BY Accounts
          <6> QED BY <5>0, <3>1, <3>2, <6>1, <6>3, <6>4
        <5> QED BY <5>0, <5>1, <5>2, <5>3, <5>4, Accounts
      <4> QED BY <4>1 DEF Account
    <3>3. CASE ref' = [ref EXCEPT ![x] = @ - 1] /\ dying' = dying
      <4>1. ASSUME NEW c \in Cell
            PROVE  ref'[c] = Cardinality(Holders(map', c)) + Cardinality(Holders(dying', c))
                             + Cardinality(Places(mq', c)) + Cardinality(Runs(c))' + leaked'[c]
        <5>0. PICK r \in {0, 1} : r = 1 <=> c = x
          OBVIOUS
        <5>1. Cardinality(Runs(c))' = Cardinality(Runs(c))
          <6>1. \A v \in Thread : Dispatching(v, c)' <=> Dispatching(v, c)
            BY <2>3 DEF Collect, Release, Dispatching, Phases, Booting, Thread, At, Goto, IInv, TypeOK, cells, threads
          <6> QED BY <6>1, RunsSame
        <5>2. ref'[c] = ref[c] - r
          <6>1. ref'[c] = IF r = 1 THEN ref[c] - 1 ELSE ref[c]
            BY <3>0, <3>3, <5>0
          <6>2. ref[c] \in Int
            BY <3>0
          <6>3. CASE r = 1
            BY <6>1, <6>2, <6>3
          <6>4. CASE r = 0
            BY <6>1, <6>2, <6>4
          <6> QED BY <5>0, <6>3, <6>4
        <5>3. Cardinality(Holders(map', c)) = Cardinality(Holders(map, c)) - r
          <6>1. PICK T : T = map[Actor(w)] \ {x}
            OBVIOUS
          <6>2. map' = Put(map, Actor(w), T) /\ Actor(w) \in Cell
            BY <3>1, <3>3, <6>1
          <6>3. /\ (c \in T <=> c \in map[Actor(w)]) =>
                     Cardinality(Holders(map', c)) = Cardinality(Holders(map, c))
                /\ c \in T /\ c \notin map[Actor(w)] =>
                     Cardinality(Holders(map', c)) = Cardinality(Holders(map, c)) + 1
                /\ c \notin T /\ c \in map[Actor(w)] =>
                     Cardinality(Holders(map', c)) = Cardinality(Holders(map, c)) - 1
            BY <6>2, MapPut
          <6>4. Cardinality(Holders(map, c)) \in Nat
            BY Accounts
          <6> QED BY <5>0, <3>1, <3>3, <6>1, <6>3, <6>4
        <5>4. /\ Cardinality(Holders(dying', c)) = Cardinality(Holders(dying, c))
              /\ Cardinality(Places(mq', c)) = Cardinality(Places(mq, c)) /\ leaked'[c] = leaked[c]
          BY <3>1, <3>3
        <5> QED BY <5>0, <5>1, <5>2, <5>3, <5>4, Accounts
      <4> QED BY <4>1 DEF Account
    <3> QED BY <2>3, <3>2, <3>3 DEF Collect, Release, Put
  <2>4. ASSUME NEW x \in Cell, Kill(w, x) PROVE Account'
    <3>1. UNCHANGED <<ref, leaked, map, dying, mq>>
      BY <2>4 DEF Kill, cells
    <3>2. \A v \in Thread, c \in Cell : Dispatching(v, c)' <=> Dispatching(v, c)
      BY <2>4 DEF Kill, Dispatching, Phases, Booting, Thread, At, Goto, IInv, TypeOK, cells, threads
    <3> QED BY <3>1, <3>2, AccountSame
  <2>5. ASSUME NEW n \in Cell, Launch(w, n) PROVE Account'
    <3>0. mq \in [Cell -> Seq(Message)] /\ map \in [Cell -> SUBSET Cell]
          /\ dying \in [Cell -> SUBSET Cell] /\ ref \in [Cell -> Nat] /\ leaked \in [Cell -> Nat]
      BY DEF IInv, TypeOK
    <3>1. /\ map' = Put(map, n, {n, system}) /\ ref' = [ref EXCEPT ![n] = 1, ![system] = @ + 1]
          /\ UNCHANGED <<leaked, dying, mq>> /\ system \in Cell
      BY <2>5 DEF Launch, Put
    <3>2. n \notin alloc /\ system \in alloc
      BY <2>5, ActorType DEF Launch, InLua, At, Actor, IInv, NoDangling
    <3>3. n # system /\ ref[n] = 0 /\ map[n] = {}
      BY <3>2 DEF IInv, Free
    <3>4. ASSUME NEW c \in Cell
          PROVE  ref'[c] = Cardinality(Holders(map', c)) + Cardinality(Holders(dying', c))
                           + Cardinality(Places(mq', c)) + Cardinality(Runs(c))' + leaked'[c]
      <4>0. PICK r \in {0, 1} : r = 1 <=> c \in {n, system}
        OBVIOUS
      <4>1. Cardinality(Runs(c))' = Cardinality(Runs(c))
        <5>1. \A v \in Thread : Dispatching(v, c)' <=> Dispatching(v, c)
          BY <2>5 DEF InLua, Launch, Dispatching, Phases, Booting, Thread, At, Goto, IInv, TypeOK, cells, threads
        <5> QED BY <5>1, RunsSame
      <4>2. ref'[c] = ref[c] + r
        <5>1. ref'[c] = IF r = 1 THEN ref[c] + 1 ELSE ref[c]
          BY <3>0, <3>1, <3>3, <4>0
        <5>2. ref[c] \in Int
          BY <3>0
        <5>3. CASE r = 1
          BY <5>1, <5>2, <5>3
        <5>4. CASE r = 0
          BY <5>1, <5>2, <5>4
        <5> QED BY <4>0, <5>3, <5>4
      <4>3. Cardinality(Holders(map', c)) = Cardinality(Holders(map, c)) + r
        <5>1. PICK T : T = {n, system}
          OBVIOUS
        <5>2. map' = Put(map, n, T) /\ n \in Cell
          BY <3>1, <3>3, <5>1
        <5>3. /\ (c \in T <=> c \in map[n]) =>
                   Cardinality(Holders(map', c)) = Cardinality(Holders(map, c))
              /\ c \in T /\ c \notin map[n] =>
                   Cardinality(Holders(map', c)) = Cardinality(Holders(map, c)) + 1
              /\ c \notin T /\ c \in map[n] =>
                   Cardinality(Holders(map', c)) = Cardinality(Holders(map, c)) - 1
          BY <5>2, MapPut
        <5>4. Cardinality(Holders(map, c)) \in Nat
          BY Accounts
        <5> QED BY <4>0, <3>1, <3>3, <5>1, <5>3, <5>4
      <4>4. UNCHANGED <<dying, leaked, mq>>
        BY <3>1
      <4> QED BY <4>0, <4>1, <4>2, <4>3, <4>4, Accounts
    <3> QED BY <3>4 DEF Account
  <2> QED BY <1>4, <2>1, <2>2, <2>3, <2>4, <2>5 DEF Call
<1>5. ASSUME NEW w \in Worker, EndRound(w) PROVE Account'
  <2>1. UNCHANGED <<ref, leaked, map, dying, mq>>
    BY <1>5 DEF EndRound, cells
  <2>2. \A v \in Thread, c \in Cell : Dispatching(v, c)' <=> Dispatching(v, c)
    BY <1>5 DEF EndRound, Dispatching, Phases, Booting, Thread, At, Goto, IInv, TypeOK, cells, threads
  <2> QED BY <2>1, <2>2, AccountSame
<1>6. CASE StartThreads
  <2>1. UNCHANGED <<ref, leaked, map, dying, mq>>
    BY <1>6 DEF StartThreads, cells
  <2>2. \A v \in Thread, c \in Cell : Dispatching(v, c)' <=> Dispatching(v, c)
    BY <1>6 DEF StartThreads, Dispatching, Phases, Booting, Thread, At, Goto, IInv, TypeOK, cells, threads
  <2> QED BY <2>1, <2>2, AccountSame
<1>7. CASE Tick
  <2>0. mq \in [Cell -> Seq(Message)]
    BY DEF IInv, TypeOK
  <2>1. /\ mq' = Pushed(mq, system, {}) /\ UNCHANGED <<ref, map, dying, leaked>>
        /\ system \in Cell /\ {} \in Message
    BY <1>7 DEF Tick, Pushed
  <2>2. ASSUME NEW c \in Cell
        PROVE  ref'[c] = Cardinality(Holders(map', c)) + Cardinality(Holders(dying', c))
                         + Cardinality(Places(mq', c)) + Cardinality(Runs(c))' + leaked'[c]
    <3>1. Cardinality(Runs(c))' = Cardinality(Runs(c))
      <4>1. \A v \in Thread : Dispatching(v, c)' <=> Dispatching(v, c)
        BY <1>7 DEF Tick, Dispatching, Phases, Booting, Thread, At, Goto, IInv, TypeOK, cells, threads
      <4> QED BY <4>1, RunsSame
    <3>2. Cardinality(Places(mq', c)) = Cardinality(Places(mq, c))
      BY <2>0, <2>1, QueuePushed
    <3>3. UNCHANGED <<ref, map, dying, leaked>>
      BY <2>1
    <3> QED BY <3>1, <3>2, <3>3, Accounts
  <2> QED BY <2>2 DEF Account
<1>8. CASE Return
  <2>1. UNCHANGED <<ref, leaked, map, dying, mq>>
    BY <1>8 DEF Return, cells
  <2>2. \A v \in Thread, c \in Cell : Dispatching(v, c)' <=> Dispatching(v, c)
    BY <1>8 DEF Return, Dispatching, Phases, Booting, Thread, At, Goto, IInv, TypeOK, cells, threads
  <2> QED BY <2>1, <2>2, AccountSame
<1>9. CASE StopTimer \/ Stopped \/ UNCHANGED vars
  <2>1. UNCHANGED <<cells, threads>>
    BY <1>9 DEF StopTimer, Stopped, vars
  <2>2. \A v \in Thread, c \in Cell : Dispatching(v, c)' <=> Dispatching(v, c)
    BY <2>1 DEF Dispatching, threads
  <2> QED BY <2>1, <2>2, AccountSame DEF cells
<1> QED BY <1>1, <1>2, <1>3, <1>4, <1>5, <1>6, <1>7, <1>8, <1>9 DEF Next

-----------------------------------------------------------------------------
(* Lua states and queues                                                   *)

\* The Lua states are as before, or less full, but perhaps that of e.
LEMMA ClosedIsEmptyFrame ==
  ASSUME IInv, NEW e \in Cell,
         \A c \in Cell \ {e} :
           L'[c] = L[c] /\ map'[c] \subseteq map[c] /\ dying'[c] \subseteq dying[c],
         \A v \in Worker : pc[v] \in {"trash", "closing"} /\ cur[v] # e =>
           pc'[v] \in {"trash", "closing"} /\ cur'[v] = cur[v],
         \/ L'[e]
         \/ map'[e] = {} /\ dying'[e] = {}
         \/ \E v \in Worker : cur'[v] = e /\ pc'[v] \in {"trash", "closing"}
  PROVE  ClosedIsEmpty'
BY DEF IInv, States, ClosedIsEmpty

\* The Lua states are as before, and hold no more proxies.
LEMMA ClosedIsEmptySame ==
  ASSUME IInv,
         \A c \in Cell :
           L'[c] = L[c] /\ map'[c] \subseteq map[c] /\ dying'[c] \subseteq dying[c],
         \A v \in Worker : pc[v] \in {"trash", "closing"} =>
           pc'[v] \in {"trash", "closing"} /\ cur'[v] = cur[v]
  PROVE  ClosedIsEmpty'
BY DEF IInv, States, ClosedIsEmpty

\* The queues and Lua states are as before but perhaps those of e.
LEMMA QueueIsServedFrame ==
  ASSUME IInv, NEW e \in Cell,
         \A c \in alloc' \ {e} : c \in alloc /\ L'[c] = L[c] /\ mq'[c] = mq[c],
         \A v \in Worker : pc[v] = "trash" /\ cur[v] # e => pc'[v] = "trash" /\ cur'[v] = cur[v],
         \A v \in Thread : FailedToLoad(v) /\ Actor(v) \in alloc' =>
           FailedToLoad(v)' /\ Actor(v)' = Actor(v),
         \/ e \notin alloc' \/ L'[e] \/ mq'[e] = <<>>
         \/ \E v \in Worker : cur'[v] = e /\ pc'[v] = "trash"
         \/ \E v \in Thread : FailedToLoad(v)' /\ Actor(v)' = e
  PROVE  QueueIsServed'
BY DEF IInv, States, QueueIsServed

\* No queue gets longer, no Lua state is closed, and no cell with messages loses its
\* worker.
LEMMA QueueIsServedSame ==
  ASSUME IInv,
         \A c \in alloc' : mq'[c] # <<>> /\ ~L'[c] => c \in alloc /\ mq[c] # <<>> /\ ~L[c],
         \A v \in Worker : pc[v] = "trash" /\ mq'[cur[v]] # <<>> =>
           pc'[v] = "trash" /\ cur'[v] = cur[v],
         \A v \in Thread : FailedToLoad(v) /\ Actor(v) \in alloc' =>
           FailedToLoad(v)' /\ Actor(v)' = Actor(v)
  PROVE  QueueIsServed'
BY DEF IInv, States, QueueIsServed

\* Nothing closes or destroys the system cell before scheduler_start ends.
LEMMA SystemOpenStep ==
  ASSUME IInv, [Next]_vars
  PROVE  SystemOpen'
<1> USE ThreadAssumption, CellAssumption
<1> USE DEF IInv, TypeOK, Phases, Booting, Thread, At, Goto, threads, cells, SystemOpen
<1>1. ASSUME NEW w \in Thread, Dispatch(w) PROVE SystemOpen'
  <2>1. CASE Take(w)
    BY <2>1 DEF Take
  <2>2. CASE DispatchQuit(w)
    BY <2>2 DEF DispatchQuit
  <2>3. CASE DispatchClose(w)
    BY <2>3, ActorType DEF DispatchClose
  <2>4. CASE DispatchEmpty(w)
    BY <2>4 DEF DispatchEmpty
  <2>5. CASE DispatchMessage(w)
    BY <2>5 DEF DispatchMessage
  <2>6. CASE EndMessage(w)
    BY <2>6 DEF EndMessage
  <2>7. CASE PushBack(w)
    BY <2>7 DEF PushBack
  <2> QED BY <1>1, <2>1, <2>2, <2>3, <2>4, <2>5, <2>6, <2>7 DEF Dispatch
<1>2. ASSUME NEW w \in Thread, Dispose(w) PROVE SystemOpen'
  <2>1. CASE SetQuit(w)
    BY <2>1 DEF SetQuit
  <2>2. CASE TrashMessage(w)
    BY <2>2 DEF TrashMessage
  <2>3. CASE EndTrash(w)
    BY <2>3 DEF EndTrash
  <2>4. ASSUME NEW x \in Cell, Finalize(w, x) PROVE SystemOpen'
    BY <2>4 DEF Finalize, Closing, InLua
  <2>5. CASE EndClosing(w)
    BY <2>5 DEF EndClosing
  <2>6. CASE EndFailing(w)
    <3>1. Actor(w) = system => w = main /\ new[main] = NoCell
      BY <2>6 DEF EndFailing, Apart, Actor
    <3> QED BY <2>6, <3>1, ActorType DEF EndFailing
  <2>7. CASE Destroy(w)
    <3>1. quit[Actor(w)] /\ ~L[Actor(w)] /\ Actor(w) \in Cell
      BY <2>7, Destroyed DEF Destroy
    <3>2. Actor(w) = system => w = main /\ new[main] = NoCell
      BY <2>7, <3>1 DEF Destroy, Apart, Actor
    <3> QED BY <2>7, <3>1, <3>2 DEF Destroy, Caller
  <2>8. CASE Decrement(w)
    BY <2>8 DEF Decrement
  <2> QED BY <1>2, <2>1, <2>2, <2>3, <2>4, <2>5, <2>6, <2>7, <2>8 DEF Dispose
<1>3. ASSUME NEW w \in Thread, Loading(w) PROVE SystemOpen'
  <2>1. CASE EndLoad(w)
    BY <2>1 DEF EndLoad, Caller
  <2>2. CASE FailLoad(w)
    BY <2>2 DEF FailLoad
  <2> QED BY <1>3, <2>1, <2>2 DEF Loading
<1>4. ASSUME NEW w \in Thread, Call(w) PROVE SystemOpen'
  <2>1. ASSUME NEW x \in Cell, NEW msg \in Message, Send(w, x, msg) PROVE SystemOpen'
    BY <2>1 DEF Send
  <2>2. ASSUME NEW x \in Cell, FailToPack(w, x) PROVE SystemOpen'
    BY <2>2 DEF FailToPack
  <2>3. ASSUME NEW x \in Cell, Collect(w, x) PROVE SystemOpen'
    BY <2>3 DEF Collect, InLua
  <2>4. ASSUME NEW x \in Cell, Kill(w, x) PROVE SystemOpen'
    BY <2>4 DEF Kill
  <2>5. ASSUME NEW n \in Cell, Launch(w, n) PROVE SystemOpen'
    BY <2>5 DEF Launch, InLua, Actor
  <2> QED BY <1>4, <2>1, <2>2, <2>3, <2>4, <2>5 DEF Call
<1>5. ASSUME NEW w \in Worker, EndRound(w) PROVE SystemOpen'
  BY <1>5 DEF EndRound
<1>6. CASE StartThreads
  BY <1>6 DEF StartThreads
<1>7. CASE Tick
  BY <1>7 DEF Tick
<1>8. CASE Return
  BY <1>8 DEF Return
<1>9. CASE StopTimer \/ Stopped \/ UNCHANGED vars
  BY <1>9 DEF StopTimer, Stopped, vars
<1> QED BY <1>1, <1>2, <1>3, <1>4, <1>5, <1>6, <1>7, <1>8, <1>9 DEF Next

\* No step takes cell.self or cell.system from an open Lua state.
LEMMA KeepsOwnStep ==
  ASSUME IInv, [Next]_vars
  PROVE  KeepsOwn'
<1> USE ThreadAssumption, CellAssumption
<1> USE DEF IInv, TypeOK, Thread, At, Goto, threads, cells, States, KeepsOwn
<1>1. ASSUME NEW w \in Thread, Dispatch(w) PROVE KeepsOwn'
  <2>1. CASE Take(w)
    <3>1. L' = L /\ map' = map
      BY <2>1 DEF Take
    <3>2. \A v \in Thread : pc[v] = "failing" => pc'[v] = "failing" /\ Actor(v)' = Actor(v)
      BY <2>1 DEF Take, Actor
    <3> QED BY <3>1, <3>2
  <2>2. CASE DispatchQuit(w)
    <3>1. L' = L /\ map' = map
      BY <2>2 DEF DispatchQuit
    <3>2. \A v \in Thread : pc[v] = "failing" => pc'[v] = "failing" /\ Actor(v)' = Actor(v)
      BY <2>2 DEF DispatchQuit, Actor
    <3> QED BY <3>1, <3>2
  <2>3. CASE DispatchClose(w)
    <3>1. (\A c \in Cell : L'[c] => L[c]) /\ map' = map
      BY <2>3, ActorType DEF DispatchClose
    <3>2. \A v \in Thread : pc[v] = "failing" => pc'[v] = "failing" /\ Actor(v)' = Actor(v)
      BY <2>3 DEF DispatchClose, Actor
    <3> QED BY <3>1, <3>2
  <2>4. CASE DispatchEmpty(w)
    <3>1. L' = L /\ map' = map
      BY <2>4 DEF DispatchEmpty
    <3>2. \A v \in Thread : pc[v] = "failing" => pc'[v] = "failing" /\ Actor(v)' = Actor(v)
      BY <2>4 DEF DispatchEmpty, Actor
    <3> QED BY <3>1, <3>2
  <2>5. CASE DispatchMessage(w)
    <3>1. L' = L /\ \A c \in Cell : map[c] \subseteq map'[c]
      BY <2>5, ActorType DEF DispatchMessage, NextMessage
    <3>2. \A v \in Thread : pc[v] = "failing" => pc'[v] = "failing" /\ Actor(v)' = Actor(v)
      BY <2>5 DEF DispatchMessage, Actor, NextMessage
    <3> QED BY <3>1, <3>2
  <2>6. CASE EndMessage(w)
    <3>1. L' = L /\ map' = map
      BY <2>6 DEF EndMessage
    <3>2. \A v \in Thread : pc[v] = "failing" => pc'[v] = "failing" /\ Actor(v)' = Actor(v)
      BY <2>6 DEF EndMessage, Actor
    <3> QED BY <3>1, <3>2
  <2>7. CASE PushBack(w)
    <3>1. L' = L /\ map' = map
      BY <2>7 DEF PushBack
    <3>2. \A v \in Thread : pc[v] = "failing" => pc'[v] = "failing" /\ Actor(v)' = Actor(v)
      BY <2>7 DEF PushBack, Actor
    <3> QED BY <3>1, <3>2
  <2> QED BY <1>1, <2>1, <2>2, <2>3, <2>4, <2>5, <2>6, <2>7 DEF Dispatch
<1>2. ASSUME NEW w \in Thread, Dispose(w) PROVE KeepsOwn'
  <2>1. CASE SetQuit(w)
    <3>1. L' = L /\ map' = map
      BY <2>1 DEF SetQuit
    <3>2. \A v \in Thread : pc[v] = "failing" => pc'[v] = "failing" /\ Actor(v)' = Actor(v)
      BY <2>1 DEF SetQuit, Actor
    <3> QED BY <3>1, <3>2
  <2>2. CASE TrashMessage(w)
    <3>1. L' = L /\ \A c \in Cell : map[c] \subseteq map'[c]
      BY <2>2, ActorType DEF TrashMessage, NextMessage
    <3>2. \A v \in Thread : pc[v] = "failing" => pc'[v] = "failing" /\ Actor(v)' = Actor(v)
      BY <2>2 DEF TrashMessage, Actor, NextMessage
    <3> QED BY <3>1, <3>2
  <2>3. CASE EndTrash(w)
    <3>1. L' = L /\ map' = map
      BY <2>3 DEF EndTrash
    <3>2. \A v \in Thread : pc[v] = "failing" => pc'[v] = "failing" /\ Actor(v)' = Actor(v)
      BY <2>3 DEF EndTrash, Actor
    <3> QED BY <3>1, <3>2
  <2>4. ASSUME NEW x \in Cell, Finalize(w, x) PROVE KeepsOwn'
    <3>1. CASE map' = map
      <4>1. L' = L /\ pc' = pc /\ new' = new /\ cur' = cur
        BY <2>4 DEF Finalize
      <4> QED BY <3>1, <4>1 DEF Actor
    <3>2. CASE Closing(w) /\ map' = [map EXCEPT ![Actor(w)] = @ \ {x}]
      <4>1. L' = L /\ pc' = pc /\ \A v \in Thread : Actor(v)' = Actor(v)
        BY <2>4 DEF Finalize, Actor
      <4>2. Actor(w) \in Cell
        BY <3>2, ActorType DEF Closing
      <4>3. pc[w] # "failing" => ~L[Actor(w)]
        BY <3>2 DEF Closing, Phases, TrashIsClosed, Actor
      <4> QED BY <3>2, <4>1, <4>2, <4>3
    <3> QED BY <2>4, <3>1, <3>2 DEF Finalize
  <2>5. CASE EndClosing(w)
    <3>1. L' = L /\ map' = map
      BY <2>5 DEF EndClosing
    <3>2. \A v \in Thread : pc[v] = "failing" => pc'[v] = "failing" /\ Actor(v)' = Actor(v)
      BY <2>5 DEF EndClosing, Actor
    <3> QED BY <3>1, <3>2
  <2>6. CASE EndFailing(w)
    <3>1. Actor(w) \in Cell
      BY <2>6, ActorType DEF EndFailing
    <3>2. map' = map /\ \A c \in Cell : L'[c] => L[c] /\ c # Actor(w)
      BY <2>6, <3>1 DEF EndFailing
    <3>3. \A v \in Thread : pc[v] = "failing" /\ v # w => pc'[v] = "failing" /\ Actor(v)' = Actor(v)
      BY <2>6 DEF EndFailing, Actor
    <3> QED BY <3>2, <3>3
  <2>7. CASE Destroy(w)
    <3>1. L' = L /\ map' = map
      BY <2>7 DEF Destroy
    <3>2. \A v \in Thread : pc[v] = "failing" => pc'[v] = "failing" /\ Actor(v)' = Actor(v)
      BY <2>7 DEF Destroy, Actor
    <3> QED BY <3>1, <3>2
  <2>8. CASE Decrement(w)
    <3>1. L' = L /\ map' = map
      BY <2>8 DEF Decrement
    <3>2. \A v \in Thread : pc[v] = "failing" => pc'[v] = "failing" /\ Actor(v)' = Actor(v)
      BY <2>8 DEF Decrement, Actor
    <3> QED BY <3>1, <3>2
  <2> QED BY <1>2, <2>1, <2>2, <2>3, <2>4, <2>5, <2>6, <2>7, <2>8 DEF Dispose
<1>3. ASSUME NEW w \in Thread, Loading(w) PROVE KeepsOwn'
  <2>1. CASE EndLoad(w)
    <3>1. L' = L /\ \A c \in Cell : map[c] \subseteq map'[c]
      BY <2>1, ActorType DEF EndLoad
    <3>2. \A v \in Thread : pc[v] = "failing" => pc'[v] = "failing" /\ Actor(v)' = Actor(v)
      BY <2>1 DEF EndLoad, Actor
    <3> QED BY <3>1, <3>2
  <2>2. CASE FailLoad(w)
    <3>1. L' = L /\ map' = map
      BY <2>2 DEF FailLoad
    <3>2. \A v \in Thread : pc[v] = "failing" => pc'[v] = "failing" /\ Actor(v)' = Actor(v)
      BY <2>2 DEF FailLoad, Actor
    <3> QED BY <3>1, <3>2
  <2> QED BY <1>3, <2>1, <2>2 DEF Loading
<1>4. ASSUME NEW w \in Thread, Call(w) PROVE KeepsOwn'
  <2>1. ASSUME NEW x \in Cell, NEW msg \in Message, Send(w, x, msg) PROVE KeepsOwn'
    <3>1. L' = L /\ map' = map
      BY <2>1 DEF Send
    <3>2. \A v \in Thread : pc[v] = "failing" => pc'[v] = "failing" /\ Actor(v)' = Actor(v)
      BY <2>1 DEF Send, Actor
    <3> QED BY <3>1, <3>2
  <2>2. ASSUME NEW x \in Cell, FailToPack(w, x) PROVE KeepsOwn'
    <3>1. L' = L /\ map' = map
      BY <2>2 DEF FailToPack
    <3>2. \A v \in Thread : pc[v] = "failing" => pc'[v] = "failing" /\ Actor(v)' = Actor(v)
      BY <2>2 DEF FailToPack, Actor
    <3> QED BY <3>1, <3>2
  <2>3. ASSUME NEW x \in Cell, Collect(w, x) PROVE KeepsOwn'
    <3>1. Actor(w) \in Cell
      BY <2>3, ActorType DEF Collect, InLua
    <3>2. L' = L /\ pc' = pc /\ \A v \in Thread : Actor(v)' = Actor(v)
      BY <2>3 DEF Collect, Actor
    <3>3. map' = [map EXCEPT ![Actor(w)] = @ \ {x}] /\ x \notin {Actor(w), system}
      BY <2>3 DEF Collect
    <3>4. \A c \in Cell : {c, system} \subseteq map[c] => {c, system} \subseteq map'[c]
      BY <3>1, <3>3
    <3> QED BY <3>2, <3>4
  <2>4. ASSUME NEW x \in Cell, Kill(w, x) PROVE KeepsOwn'
    <3>1. L' = L /\ map' = map
      BY <2>4 DEF Kill
    <3>2. \A v \in Thread : pc[v] = "failing" => pc'[v] = "failing" /\ Actor(v)' = Actor(v)
      BY <2>4 DEF Kill, Actor
    <3> QED BY <3>1, <3>2
  <2>5. ASSUME NEW n \in Cell, Launch(w, n) PROVE KeepsOwn'
    <3>1. \A v \in Thread : pc[v] = "failing" => pc'[v] = "failing" /\ Actor(v)' = Actor(v)
      BY <2>5 DEF Launch, InLua, Actor
    <3>2. L' = [L EXCEPT ![n] = TRUE] /\ map' = [map EXCEPT ![n] = {n, system}]
      BY <2>5 DEF Launch
    <3> QED BY <3>1, <3>2
  <2> QED BY <1>4, <2>1, <2>2, <2>3, <2>4, <2>5 DEF Call
<1>5. ASSUME NEW w \in Worker, EndRound(w) PROVE KeepsOwn'
  <2>1. L' = L /\ map' = map
    BY <1>5 DEF EndRound
  <2>2. \A v \in Thread : pc[v] = "failing" => pc'[v] = "failing" /\ Actor(v)' = Actor(v)
    BY <1>5 DEF EndRound, Actor
  <2> QED BY <2>1, <2>2
<1>6. CASE StartThreads
  <2>1. L' = L /\ map' = map
    BY <1>6 DEF StartThreads, Phases, Booting
  <2>2. \A v \in Thread : pc[v] = "failing" => pc'[v] = "failing" /\ Actor(v)' = Actor(v)
    BY <1>6 DEF StartThreads, Actor, Phases, Booting
  <2> QED BY <2>1, <2>2
<1>7. CASE Tick
  <2>1. L' = L /\ map' = map
    BY <1>7 DEF Tick
  <2>2. \A v \in Thread : pc[v] = "failing" => pc'[v] = "failing" /\ Actor(v)' = Actor(v)
    BY <1>7 DEF Tick, Actor
  <2> QED BY <2>1, <2>2
<1>8. CASE Return
  <2>1. L' = L /\ map' = map
    BY <1>8 DEF Return
  <2>2. \A v \in Thread : pc[v] = "failing" => pc'[v] = "failing" /\ Actor(v)' = Actor(v)
    BY <1>8 DEF Return, Actor
  <2> QED BY <2>1, <2>2
<1>9. CASE StopTimer \/ Stopped \/ UNCHANGED vars
  <2>1. L' = L /\ map' = map /\ pc' = pc /\ new' = new /\ cur' = cur
    BY <1>9 DEF StopTimer, Stopped, vars
  <2> QED BY <2>1 DEF Actor
<1> QED BY <1>1, <1>2, <1>3, <1>4, <1>5, <1>6, <1>7, <1>8, <1>9 DEF Next

\* A Lua state is emptied before its cell is put back.
LEMMA ClosedIsEmptyStep ==
  ASSUME IInv, [Next]_vars
  PROVE  ClosedIsEmpty'
<1> USE ThreadAssumption, CellAssumption
<1> USE DEF IInv, TypeOK, Thread, At, Goto, threads, cells, States, ClosedIsEmpty
<1>1. ASSUME NEW w \in Thread, Dispatch(w) PROVE ClosedIsEmpty'
  <2>1. CASE Take(w)
    <3>1. L' = L /\ map' = map /\ dying' = dying
      BY <2>1 DEF Take
    <3>2. \A v \in Worker : pc[v] \in {"trash", "closing"} =>
            pc'[v] \in {"trash", "closing"} /\ cur'[v] = cur[v]
      BY <2>1 DEF Take
    <3>3. \A c \in Cell :
            L'[c] = L[c] /\ map'[c] \subseteq map[c] /\ dying'[c] \subseteq dying[c]
      BY <3>1
    <3> HIDE DEF States, ClosedIsEmpty
    <3> QED BY <3>2, <3>3, ClosedIsEmptySame
  <2>2. CASE DispatchQuit(w)
    <3>1. L' = L /\ map' = map /\ dying' = dying
      BY <2>2 DEF DispatchQuit
    <3>2. \A v \in Worker : pc[v] \in {"trash", "closing"} =>
            pc'[v] \in {"trash", "closing"} /\ cur'[v] = cur[v]
      BY <2>2 DEF DispatchQuit
    <3>3. \A c \in Cell :
            L'[c] = L[c] /\ map'[c] \subseteq map[c] /\ dying'[c] \subseteq dying[c]
      BY <3>1
    <3> HIDE DEF States, ClosedIsEmpty
    <3> QED BY <3>2, <3>3, ClosedIsEmptySame
  <2>3. CASE DispatchClose(w)
    <3>1. cur[w] \in Cell
      BY <2>3, ActorType DEF DispatchClose
    <3>2. \A c \in Cell \ {cur[w]} :
            L'[c] = L[c] /\ map'[c] \subseteq map[c] /\ dying'[c] \subseteq dying[c]
      <4>1. L' = [L EXCEPT ![cur[w]] = FALSE] /\ map' = map /\ dying' = dying
        BY <2>3 DEF DispatchClose
      <4>2. L' = [L EXCEPT ![cur[w]] = FALSE] /\ map' = map /\ dying' = dying /\ L \in [Cell -> BOOLEAN]
            /\ map \in [Cell -> SUBSET Cell]
        BY <4>1
      <4> HIDE DEF IInv, TypeOK, States, ClosedIsEmpty
      <4> QED BY <3>1, <4>2
    <3>3. \A v \in Worker : pc[v] \in {"trash", "closing"} /\ cur[v] # cur[w] =>
            pc'[v] \in {"trash", "closing"} /\ cur'[v] = cur[v]
      BY <2>3 DEF DispatchClose
    <3>4. \/ L'[cur[w]]
          \/ map'[cur[w]] = {} /\ dying'[cur[w]] = {}
          \/ \E v \in Worker : cur'[v] = cur[w] /\ pc'[v] \in {"trash", "closing"}
      <4>1. w \in Worker /\ pc'[w] = "trash" /\ cur'[w] = cur[w]
        BY <2>3, ActorType DEF DispatchClose, Phases
      <4> QED BY <4>1
    <3> HIDE DEF States, ClosedIsEmpty
    <3> QED BY <3>1, <3>2, <3>3, <3>4, ClosedIsEmptyFrame
  <2>4. CASE DispatchEmpty(w)
    <3>1. L' = L /\ map' = map /\ dying' = dying
      BY <2>4 DEF DispatchEmpty
    <3>2. \A v \in Worker : pc[v] \in {"trash", "closing"} =>
            pc'[v] \in {"trash", "closing"} /\ cur'[v] = cur[v]
      BY <2>4 DEF DispatchEmpty
    <3>3. \A c \in Cell :
            L'[c] = L[c] /\ map'[c] \subseteq map[c] /\ dying'[c] \subseteq dying[c]
      BY <3>1
    <3> HIDE DEF States, ClosedIsEmpty
    <3> QED BY <3>2, <3>3, ClosedIsEmptySame
  <2>5. CASE DispatchMessage(w)
    <3>1. cur[w] \in Cell
      BY <2>5, ActorType DEF DispatchMessage
    <3>2. \A c \in Cell \ {cur[w]} :
            L'[c] = L[c] /\ map'[c] \subseteq map[c] /\ dying'[c] \subseteq dying[c]
      <4>1. L' = L /\ map' = [map EXCEPT ![cur[w]] = @ \union Head(mq[cur[w]])] /\ dying' = dying
        BY <2>5 DEF DispatchMessage, NextMessage
      <4>2. L' = L /\ map' = [map EXCEPT ![cur[w]] = @ \union Head(mq[cur[w]])] /\ dying' = dying /\ L \in [Cell -> BOOLEAN]
            /\ map \in [Cell -> SUBSET Cell]
        BY <4>1
      <4> HIDE DEF IInv, TypeOK, States, ClosedIsEmpty
      <4> QED BY <3>1, <4>2
    <3>3. \A v \in Worker : pc[v] \in {"trash", "closing"} /\ cur[v] # cur[w] =>
            pc'[v] \in {"trash", "closing"} /\ cur'[v] = cur[v]
      BY <2>5 DEF DispatchMessage, NextMessage
    <3>4. \/ L'[cur[w]]
          \/ map'[cur[w]] = {} /\ dying'[cur[w]] = {}
          \/ \E v \in Worker : cur'[v] = cur[w] /\ pc'[v] \in {"trash", "closing"}
      BY <2>5 DEF DispatchMessage
    <3> HIDE DEF States, ClosedIsEmpty
    <3> QED BY <3>1, <3>2, <3>3, <3>4, ClosedIsEmptyFrame
  <2>6. CASE EndMessage(w)
    <3>1. L' = L /\ map' = map /\ dying' = dying
      BY <2>6 DEF EndMessage
    <3>2. \A v \in Worker : pc[v] \in {"trash", "closing"} =>
            pc'[v] \in {"trash", "closing"} /\ cur'[v] = cur[v]
      BY <2>6 DEF EndMessage
    <3>3. \A c \in Cell :
            L'[c] = L[c] /\ map'[c] \subseteq map[c] /\ dying'[c] \subseteq dying[c]
      BY <3>1
    <3> HIDE DEF States, ClosedIsEmpty
    <3> QED BY <3>2, <3>3, ClosedIsEmptySame
  <2>7. CASE PushBack(w)
    <3>1. L' = L /\ map' = map /\ dying' = dying
      BY <2>7 DEF PushBack
    <3>2. \A v \in Worker : pc[v] \in {"trash", "closing"} =>
            pc'[v] \in {"trash", "closing"} /\ cur'[v] = cur[v]
      BY <2>7 DEF PushBack
    <3>3. \A c \in Cell :
            L'[c] = L[c] /\ map'[c] \subseteq map[c] /\ dying'[c] \subseteq dying[c]
      BY <3>1
    <3> HIDE DEF States, ClosedIsEmpty
    <3> QED BY <3>2, <3>3, ClosedIsEmptySame
  <2> QED BY <1>1, <2>1, <2>2, <2>3, <2>4, <2>5, <2>6, <2>7 DEF Dispatch
<1>2. ASSUME NEW w \in Thread, Dispose(w) PROVE ClosedIsEmpty'
  <2>1. CASE SetQuit(w)
    <3>1. L' = L /\ map' = map /\ dying' = dying
      BY <2>1 DEF SetQuit
    <3>2. \A v \in Worker : pc[v] \in {"trash", "closing"} =>
            pc'[v] \in {"trash", "closing"} /\ cur'[v] = cur[v]
      BY <2>1 DEF SetQuit
    <3>3. \A c \in Cell :
            L'[c] = L[c] /\ map'[c] \subseteq map[c] /\ dying'[c] \subseteq dying[c]
      BY <3>1
    <3> HIDE DEF States, ClosedIsEmpty
    <3> QED BY <3>2, <3>3, ClosedIsEmptySame
  <2>2. CASE TrashMessage(w)
    <3>1. cur[w] \in Cell
      BY <2>2, ActorType DEF TrashMessage
    <3>2. \A c \in Cell \ {cur[w]} :
            L'[c] = L[c] /\ map'[c] \subseteq map[c] /\ dying'[c] \subseteq dying[c]
      <4>1. L' = L /\ map' = [map EXCEPT ![cur[w]] = @ \union Head(mq[cur[w]])] /\ dying' = dying
        BY <2>2 DEF TrashMessage, NextMessage
      <4>2. L' = L /\ map' = [map EXCEPT ![cur[w]] = @ \union Head(mq[cur[w]])] /\ dying' = dying /\ L \in [Cell -> BOOLEAN]
            /\ map \in [Cell -> SUBSET Cell]
        BY <4>1
      <4> HIDE DEF IInv, TypeOK, States, ClosedIsEmpty
      <4> QED BY <3>1, <4>2
    <3>3. \A v \in Worker : pc[v] \in {"trash", "closing"} /\ cur[v] # cur[w] =>
            pc'[v] \in {"trash", "closing"} /\ cur'[v] = cur[v]
      BY <2>2 DEF TrashMessage, NextMessage
    <3>4. \/ L'[cur[w]]
          \/ map'[cur[w]] = {} /\ dying'[cur[w]] = {}
          \/ \E v \in Worker : cur'[v] = cur[w] /\ pc'[v] \in {"trash", "closing"}
      <4>1. w \in Worker /\ pc'[w] = "trash" /\ cur'[w] = cur[w]
        BY <2>2, ActorType DEF TrashMessage, Phases
      <4> QED BY <4>1
    <3> HIDE DEF States, ClosedIsEmpty
    <3> QED BY <3>1, <3>2, <3>3, <3>4, ClosedIsEmptyFrame
  <2>3. CASE EndTrash(w)
    <3>1. L' = L /\ map' = map /\ dying' = dying
      BY <2>3 DEF EndTrash
    <3>2. \A v \in Worker : pc[v] \in {"trash", "closing"} =>
            pc'[v] \in {"trash", "closing"} /\ cur'[v] = cur[v]
      BY <2>3 DEF EndTrash
    <3>3. \A c \in Cell :
            L'[c] = L[c] /\ map'[c] \subseteq map[c] /\ dying'[c] \subseteq dying[c]
      BY <3>1
    <3> HIDE DEF States, ClosedIsEmpty
    <3> QED BY <3>2, <3>3, ClosedIsEmptySame
  <2>4. ASSUME NEW x \in Cell, Finalize(w, x) PROVE ClosedIsEmpty'
    <3>1. L' = L /\ pc' = pc /\ cur' = cur
      BY <2>4 DEF Finalize
    <3>2. Actor(w) \in Cell
      BY <2>4, ActorType DEF Finalize, InLua, Closing
    <3>3. \A c \in Cell : map'[c] \subseteq map[c] /\ dying'[c] \subseteq dying[c]
      <4>1. CASE map' = map /\ dying' = [dying EXCEPT ![Actor(w)] = @ \ {x}]
        BY <3>2, <4>1
      <4>2. CASE dying' = dying /\ map' = [map EXCEPT ![Actor(w)] = @ \ {x}]
        BY <3>2, <4>2
      <4> QED BY <2>4, <4>1, <4>2 DEF Finalize
    <3> HIDE DEF States, ClosedIsEmpty
    <3> QED BY <3>1, <3>3, ClosedIsEmptySame
  <2>5. CASE EndClosing(w)
    <3>1. cur[w] \in Cell
      BY <2>5, ActorType DEF EndClosing
    <3>2. \A c \in Cell \ {cur[w]} :
            L'[c] = L[c] /\ map'[c] \subseteq map[c] /\ dying'[c] \subseteq dying[c]
      <4>1. L' = L /\ map' = map /\ dying' = dying
        BY <2>5 DEF EndClosing
      <4>2. L' = L /\ map' = map /\ dying' = dying /\ L \in [Cell -> BOOLEAN]
            /\ map \in [Cell -> SUBSET Cell]
        BY <4>1
      <4> HIDE DEF IInv, TypeOK, States, ClosedIsEmpty
      <4> QED BY <3>1, <4>2
    <3>3. \A v \in Worker : pc[v] \in {"trash", "closing"} /\ cur[v] # cur[w] =>
            pc'[v] \in {"trash", "closing"} /\ cur'[v] = cur[v]
      BY <2>5 DEF EndClosing
    <3>4. \/ L'[cur[w]]
          \/ map'[cur[w]] = {} /\ dying'[cur[w]] = {}
          \/ \E v \in Worker : cur'[v] = cur[w] /\ pc'[v] \in {"trash", "closing"}
      BY <2>5 DEF EndClosing
    <3> HIDE DEF States, ClosedIsEmpty
    <3> QED BY <3>1, <3>2, <3>3, <3>4, ClosedIsEmptyFrame
  <2>6. CASE EndFailing(w)
    <3>1. Actor(w) \in Cell
      BY <2>6, ActorType DEF EndFailing
    <3>2. \A c \in Cell \ {Actor(w)} :
            L'[c] = L[c] /\ map'[c] \subseteq map[c] /\ dying'[c] \subseteq dying[c]
      <4>1. L' = [L EXCEPT ![Actor(w)] = FALSE] /\ map' = map /\ dying' = dying
        BY <2>6 DEF EndFailing
      <4>2. L' = [L EXCEPT ![Actor(w)] = FALSE] /\ map' = map /\ dying' = dying /\ L \in [Cell -> BOOLEAN]
            /\ map \in [Cell -> SUBSET Cell]
        BY <4>1
      <4> HIDE DEF IInv, TypeOK, States, ClosedIsEmpty
      <4> QED BY <3>1, <4>2
    <3>3. \A v \in Worker : pc[v] \in {"trash", "closing"} /\ cur[v] # Actor(w) =>
            pc'[v] \in {"trash", "closing"} /\ cur'[v] = cur[v]
      BY <2>6 DEF EndFailing
    <3>4. \/ L'[Actor(w)]
          \/ map'[Actor(w)] = {} /\ dying'[Actor(w)] = {}
          \/ \E v \in Worker : cur'[v] = Actor(w) /\ pc'[v] \in {"trash", "closing"}
      BY <2>6 DEF EndFailing
    <3> HIDE DEF States, ClosedIsEmpty
    <3> QED BY <3>1, <3>2, <3>3, <3>4, ClosedIsEmptyFrame
  <2>7. CASE Destroy(w)
    <3>1. L' = L /\ map' = map /\ dying' = dying
      BY <2>7 DEF Destroy
    <3>2. \A v \in Worker : pc[v] \in {"trash", "closing"} =>
            pc'[v] \in {"trash", "closing"} /\ cur'[v] = cur[v]
      BY <2>7 DEF Destroy
    <3>3. \A c \in Cell :
            L'[c] = L[c] /\ map'[c] \subseteq map[c] /\ dying'[c] \subseteq dying[c]
      BY <3>1
    <3> HIDE DEF States, ClosedIsEmpty
    <3> QED BY <3>2, <3>3, ClosedIsEmptySame
  <2>8. CASE Decrement(w)
    <3>1. L' = L /\ map' = map /\ dying' = dying
      BY <2>8 DEF Decrement
    <3>2. \A v \in Worker : pc[v] \in {"trash", "closing"} =>
            pc'[v] \in {"trash", "closing"} /\ cur'[v] = cur[v]
      BY <2>8 DEF Decrement
    <3>3. \A c \in Cell :
            L'[c] = L[c] /\ map'[c] \subseteq map[c] /\ dying'[c] \subseteq dying[c]
      BY <3>1
    <3> HIDE DEF States, ClosedIsEmpty
    <3> QED BY <3>2, <3>3, ClosedIsEmptySame
  <2> QED BY <1>2, <2>1, <2>2, <2>3, <2>4, <2>5, <2>6, <2>7, <2>8 DEF Dispose
<1>3. ASSUME NEW w \in Thread, Loading(w) PROVE ClosedIsEmpty'
  <2>1. CASE EndLoad(w)
    <3>1. system \in Cell
      BY <2>1
    <3>2. \A c \in Cell \ {system} :
            L'[c] = L[c] /\ map'[c] \subseteq map[c] /\ dying'[c] \subseteq dying[c]
      <4>1. L' = L /\ map' = [map EXCEPT ![system] = @ \union {new[w]}] /\ dying' = dying
        BY <2>1 DEF EndLoad, Caller
      <4>2. L' = L /\ map' = [map EXCEPT ![system] = @ \union {new[w]}] /\ dying' = dying /\ L \in [Cell -> BOOLEAN]
            /\ map \in [Cell -> SUBSET Cell]
        BY <4>1
      <4> HIDE DEF IInv, TypeOK, States, ClosedIsEmpty
      <4> QED BY <3>1, <4>2
    <3>3. \A v \in Worker : pc[v] \in {"trash", "closing"} /\ cur[v] # system =>
            pc'[v] \in {"trash", "closing"} /\ cur'[v] = cur[v]
      BY <2>1 DEF EndLoad, Caller
    <3>4. \/ L'[system]
          \/ map'[system] = {} /\ dying'[system] = {}
          \/ \E v \in Worker : cur'[v] = system /\ pc'[v] \in {"trash", "closing"}
      BY <2>1 DEF EndLoad, SystemOpen, Phases, Booting
    <3> HIDE DEF States, ClosedIsEmpty
    <3> QED BY <3>1, <3>2, <3>3, <3>4, ClosedIsEmptyFrame
  <2>2. CASE FailLoad(w)
    <3>1. L' = L /\ map' = map /\ dying' = dying
      BY <2>2 DEF FailLoad
    <3>2. \A v \in Worker : pc[v] \in {"trash", "closing"} =>
            pc'[v] \in {"trash", "closing"} /\ cur'[v] = cur[v]
      BY <2>2 DEF FailLoad
    <3>3. \A c \in Cell :
            L'[c] = L[c] /\ map'[c] \subseteq map[c] /\ dying'[c] \subseteq dying[c]
      BY <3>1
    <3> HIDE DEF States, ClosedIsEmpty
    <3> QED BY <3>2, <3>3, ClosedIsEmptySame
  <2> QED BY <1>3, <2>1, <2>2 DEF Loading
<1>4. ASSUME NEW w \in Thread, Call(w) PROVE ClosedIsEmpty'
  <2>1. ASSUME NEW x \in Cell, NEW msg \in Message, Send(w, x, msg) PROVE ClosedIsEmpty'
    <3>1. L' = L /\ map' = map /\ dying' = dying
      BY <2>1 DEF Send
    <3>2. \A v \in Worker : pc[v] \in {"trash", "closing"} =>
            pc'[v] \in {"trash", "closing"} /\ cur'[v] = cur[v]
      BY <2>1 DEF Send
    <3>3. \A c \in Cell :
            L'[c] = L[c] /\ map'[c] \subseteq map[c] /\ dying'[c] \subseteq dying[c]
      BY <3>1
    <3> HIDE DEF States, ClosedIsEmpty
    <3> QED BY <3>2, <3>3, ClosedIsEmptySame
  <2>2. ASSUME NEW x \in Cell, FailToPack(w, x) PROVE ClosedIsEmpty'
    <3>1. L' = L /\ map' = map /\ dying' = dying
      BY <2>2 DEF FailToPack
    <3>2. \A v \in Worker : pc[v] \in {"trash", "closing"} =>
            pc'[v] \in {"trash", "closing"} /\ cur'[v] = cur[v]
      BY <2>2 DEF FailToPack
    <3>3. \A c \in Cell :
            L'[c] = L[c] /\ map'[c] \subseteq map[c] /\ dying'[c] \subseteq dying[c]
      BY <3>1
    <3> HIDE DEF States, ClosedIsEmpty
    <3> QED BY <3>2, <3>3, ClosedIsEmptySame
  <2>3. ASSUME NEW x \in Cell, Collect(w, x) PROVE ClosedIsEmpty'
    <3>1. UNCHANGED <<L, pc, cur>>
      BY <2>3 DEF Collect
    <3>2. Actor(w) \in Cell /\ map[Actor(w)] # {}
      BY <2>3, ActorType DEF Collect, InLua
    <3>3. PICK e \in Cell : e = Actor(w)
      BY <3>2
    <3>4. \A c \in Cell \ {e} :
            L'[c] = L[c] /\ map'[c] \subseteq map[c] /\ dying'[c] \subseteq dying[c]
      BY <2>3, <3>1, <3>3 DEF Collect
    <3>5. L[e] \/ \E v \in Worker : cur[v] = e /\ pc[v] \in {"trash", "closing"}
      BY <3>2, <3>3
    <3>6. \A v \in Worker : pc[v] \in {"trash", "closing"} /\ cur[v] # e =>
            pc'[v] \in {"trash", "closing"} /\ cur'[v] = cur[v]
      BY <3>1
    <3>7. \/ L'[e]
          \/ map'[e] = {} /\ dying'[e] = {}
          \/ \E v \in Worker : cur'[v] = e /\ pc'[v] \in {"trash", "closing"}
      BY <3>1, <3>5
    <3> HIDE DEF States, ClosedIsEmpty
    <3> QED BY <3>4, <3>6, <3>7, ClosedIsEmptyFrame
  <2>4. ASSUME NEW x \in Cell, Kill(w, x) PROVE ClosedIsEmpty'
    <3>1. L' = L /\ map' = map /\ dying' = dying
      BY <2>4 DEF Kill
    <3>2. \A v \in Worker : pc[v] \in {"trash", "closing"} =>
            pc'[v] \in {"trash", "closing"} /\ cur'[v] = cur[v]
      BY <2>4 DEF Kill
    <3>3. \A c \in Cell :
            L'[c] = L[c] /\ map'[c] \subseteq map[c] /\ dying'[c] \subseteq dying[c]
      BY <3>1
    <3> HIDE DEF States, ClosedIsEmpty
    <3> QED BY <3>2, <3>3, ClosedIsEmptySame
  <2>5. ASSUME NEW n \in Cell, Launch(w, n) PROVE ClosedIsEmpty'
    <3>0. pc[w] # "trash"
      BY <2>5 DEF Launch, Actor, InLua, Phases, TrashIsClosed, SystemOpen, Booting
    <3>1. n \in Cell
      BY <2>5
    <3>2. \A c \in Cell \ {n} :
            L'[c] = L[c] /\ map'[c] \subseteq map[c] /\ dying'[c] \subseteq dying[c]
      <4>1. L' = [L EXCEPT ![n] = TRUE] /\ map' = [map EXCEPT ![n] = {n, system}] /\ dying' = dying
        BY <2>5, <3>0 DEF Launch, InLua
      <4>2. L' = [L EXCEPT ![n] = TRUE] /\ map' = [map EXCEPT ![n] = {n, system}] /\ dying' = dying /\ L \in [Cell -> BOOLEAN]
            /\ map \in [Cell -> SUBSET Cell]
        BY <4>1
      <4> HIDE DEF IInv, TypeOK, States, ClosedIsEmpty
      <4> QED BY <3>1, <4>2
    <3>3. \A v \in Worker : pc[v] \in {"trash", "closing"} /\ cur[v] # n =>
            pc'[v] \in {"trash", "closing"} /\ cur'[v] = cur[v]
      BY <2>5, <3>0 DEF Launch, InLua
    <3>4. \/ L'[n]
          \/ map'[n] = {} /\ dying'[n] = {}
          \/ \E v \in Worker : cur'[v] = n /\ pc'[v] \in {"trash", "closing"}
      BY <2>5 DEF Launch
    <3> HIDE DEF States, ClosedIsEmpty
    <3> QED BY <3>1, <3>2, <3>3, <3>4, ClosedIsEmptyFrame
  <2> QED BY <1>4, <2>1, <2>2, <2>3, <2>4, <2>5 DEF Call
<1>5. ASSUME NEW w \in Worker, EndRound(w) PROVE ClosedIsEmpty'
  <2>1. L' = L /\ map' = map /\ dying' = dying
    BY <1>5 DEF EndRound
  <2>2. \A v \in Worker : pc[v] \in {"trash", "closing"} =>
          pc'[v] \in {"trash", "closing"} /\ cur'[v] = cur[v]
    BY <1>5 DEF EndRound
  <2>3. \A c \in Cell :
          L'[c] = L[c] /\ map'[c] \subseteq map[c] /\ dying'[c] \subseteq dying[c]
    BY <2>1
  <2> HIDE DEF States, ClosedIsEmpty
  <2> QED BY <2>2, <2>3, ClosedIsEmptySame
<1>6. CASE StartThreads
  <2>1. L' = L /\ map' = map /\ dying' = dying
    BY <1>6 DEF StartThreads, Phases, Booting
  <2>2. \A v \in Worker : pc[v] \in {"trash", "closing"} =>
          pc'[v] \in {"trash", "closing"} /\ cur'[v] = cur[v]
    BY <1>6 DEF StartThreads, Phases, Booting
  <2>3. \A c \in Cell :
          L'[c] = L[c] /\ map'[c] \subseteq map[c] /\ dying'[c] \subseteq dying[c]
    BY <2>1
  <2> HIDE DEF States, ClosedIsEmpty
  <2> QED BY <2>2, <2>3, ClosedIsEmptySame
<1>7. CASE Tick
  <2>1. L' = L /\ map' = map /\ dying' = dying
    BY <1>7 DEF Tick
  <2>2. \A v \in Worker : pc[v] \in {"trash", "closing"} =>
          pc'[v] \in {"trash", "closing"} /\ cur'[v] = cur[v]
    BY <1>7 DEF Tick
  <2>3. \A c \in Cell :
          L'[c] = L[c] /\ map'[c] \subseteq map[c] /\ dying'[c] \subseteq dying[c]
    BY <2>1
  <2> HIDE DEF States, ClosedIsEmpty
  <2> QED BY <2>2, <2>3, ClosedIsEmptySame
<1>8. CASE Return
  <2>1. L' = L /\ map' = map /\ dying' = dying
    BY <1>8 DEF Return
  <2>2. \A v \in Worker : pc[v] \in {"trash", "closing"} =>
          pc'[v] \in {"trash", "closing"} /\ cur'[v] = cur[v]
    BY <1>8 DEF Return
  <2>3. \A c \in Cell :
          L'[c] = L[c] /\ map'[c] \subseteq map[c] /\ dying'[c] \subseteq dying[c]
    BY <2>1
  <2> HIDE DEF States, ClosedIsEmpty
  <2> QED BY <2>2, <2>3, ClosedIsEmptySame
<1>9. CASE StopTimer \/ Stopped \/ UNCHANGED vars
  <2>1. L' = L /\ map' = map /\ dying' = dying /\ pc' = pc /\ cur' = cur
    BY <1>9 DEF StopTimer, Stopped, vars
  <2> QED BY <2>1
<1> QED BY <1>1, <1>2, <1>3, <1>4, <1>5, <1>6, <1>7, <1>8, <1>9 DEF Next

\* No step collects cell.self or cell.system.
LEMMA OwnNotDyingStep ==
  ASSUME IInv, [Next]_vars
  PROVE  OwnNotDying'
<1> USE ThreadAssumption, CellAssumption
<1> USE DEF IInv, TypeOK, Thread, At, Goto, threads, cells, OwnNotDying, States
<1>1. ASSUME NEW w \in Thread, Dispatch(w) PROVE OwnNotDying'
  <2>1. CASE Take(w)
    BY <2>1 DEF Take
  <2>2. CASE DispatchQuit(w)
    BY <2>2 DEF DispatchQuit
  <2>3. CASE DispatchClose(w)
    BY <2>3 DEF DispatchClose
  <2>4. CASE DispatchEmpty(w)
    BY <2>4 DEF DispatchEmpty
  <2>5. CASE DispatchMessage(w)
    BY <2>5 DEF DispatchMessage
  <2>6. CASE EndMessage(w)
    BY <2>6 DEF EndMessage
  <2>7. CASE PushBack(w)
    BY <2>7 DEF PushBack
  <2> QED BY <1>1, <2>1, <2>2, <2>3, <2>4, <2>5, <2>6, <2>7 DEF Dispatch
<1>2. ASSUME NEW w \in Thread, Dispose(w) PROVE OwnNotDying'
  <2>1. CASE SetQuit(w)
    BY <2>1 DEF SetQuit
  <2>2. CASE TrashMessage(w)
    BY <2>2 DEF TrashMessage
  <2>3. CASE EndTrash(w)
    BY <2>3 DEF EndTrash
  <2>4. ASSUME NEW x \in Cell, Finalize(w, x) PROVE OwnNotDying'
    <3>1. dying' = dying \/ dying' = [dying EXCEPT ![Actor(w)] = @ \ {x}]
      BY <2>4 DEF Finalize
    <3>2. \A c \in Cell : dying'[c] \subseteq dying[c]
      <4>1. CASE dying' = dying
        BY <4>1
      <4>2. CASE dying' = [dying EXCEPT ![Actor(w)] = @ \ {x}]
        BY <4>2
      <4> QED BY <3>1, <4>1, <4>2
    <3> QED BY <3>2
  <2>5. CASE EndClosing(w)
    BY <2>5 DEF EndClosing
  <2>6. CASE EndFailing(w)
    BY <2>6 DEF EndFailing
  <2>7. CASE Destroy(w)
    BY <2>7 DEF Destroy
  <2>8. CASE Decrement(w)
    BY <2>8 DEF Decrement
  <2> QED BY <1>2, <2>1, <2>2, <2>3, <2>4, <2>5, <2>6, <2>7, <2>8 DEF Dispose
<1>3. ASSUME NEW w \in Thread, Loading(w) PROVE OwnNotDying'
  <2>1. CASE EndLoad(w)
    BY <2>1 DEF EndLoad
  <2>2. CASE FailLoad(w)
    BY <2>2 DEF FailLoad
  <2> QED BY <1>3, <2>1, <2>2 DEF Loading
<1>4. ASSUME NEW w \in Thread, Call(w) PROVE OwnNotDying'
  <2>1. ASSUME NEW x \in Cell, NEW msg \in Message, Send(w, x, msg) PROVE OwnNotDying'
    BY <2>1 DEF Send
  <2>2. ASSUME NEW x \in Cell, FailToPack(w, x) PROVE OwnNotDying'
    BY <2>2 DEF FailToPack
  <2>3. ASSUME NEW x \in Cell, Collect(w, x) PROVE OwnNotDying'
    <3>1. x \notin {Actor(w), system}
          /\ (dying' = dying \/ dying' = [dying EXCEPT ![Actor(w)] = @ \union {x}])
      BY <2>3 DEF Collect
    <3>2. \A c \in Cell : dying'[c] \subseteq dying[c] \/ (c = Actor(w) /\ dying'[c] = dying[c] \union {x})
      <4>1. CASE dying' = dying
        BY <4>1
      <4>2. CASE dying' = [dying EXCEPT ![Actor(w)] = @ \union {x}]
        BY <4>2
      <4> QED BY <3>1, <4>1, <4>2
    <3>3. ASSUME NEW c \in Cell PROVE dying'[c] \intersect {c, system} = {}
      <4>1. dying[c] \intersect {c, system} = {}
        OBVIOUS
      <4>2. c = Actor(w) => x \notin {c, system}
        BY <3>1
      <4> QED BY <3>2, <4>1, <4>2
    <3> QED BY <3>3
  <2>4. ASSUME NEW x \in Cell, Kill(w, x) PROVE OwnNotDying'
    BY <2>4 DEF Kill
  <2>5. ASSUME NEW n \in Cell, Launch(w, n) PROVE OwnNotDying'
    BY <2>5 DEF Launch
  <2> QED BY <1>4, <2>1, <2>2, <2>3, <2>4, <2>5 DEF Call
<1>5. ASSUME NEW w \in Worker, EndRound(w) PROVE OwnNotDying'
  BY <1>5 DEF EndRound
<1>6. CASE StartThreads
  BY <1>6 DEF StartThreads
<1>7. CASE Tick
  BY <1>7 DEF Tick
<1>8. CASE Return
  BY <1>8 DEF Return
<1>9. CASE StopTimer \/ Stopped \/ UNCHANGED vars
  BY <1>9 DEF StopTimer, Stopped, vars
<1> QED BY <1>1, <1>2, <1>3, <1>4, <1>5, <1>6, <1>7, <1>8, <1>9 DEF Next

\* A cell that failed to load is destroyed by the thread that was loading it.
LEMMA FailedToLoadKept ==
  ASSUME IInv, [Next]_vars, NEW v \in Thread, FailedToLoad(v), Actor(v) \in alloc'
  PROVE  FailedToLoad(v)' /\ Actor(v)' = Actor(v)
<1> USE ThreadAssumption, CellAssumption
<1> USE DEF IInv, TypeOK, Thread, At, Goto, threads, cells
<1>1. SUFFICES pc'[v] = "destroy" /\ new'[v] = new[v] /\ cur'[v] = cur[v]
  BY DEF FailedToLoad, Actor
<1>2. pc[v] = "destroy"
  BY DEF FailedToLoad
<1>3. ASSUME NEW w \in Thread, Dispatch(w)
      PROVE  pc'[v] = "destroy" /\ new'[v] = new[v] /\ cur'[v] = cur[v]
  <2>1. CASE Take(w) \/ EndMessage(w) \/ PushBack(w)
    <3>1. /\ pc[w] # "destroy" /\ UNCHANGED new
          /\ \A u \in Thread \ {w} : pc'[u] = pc[u] /\ cur'[u] = cur[u]
      BY <2>1, SMTT(30) DEF Take, EndMessage, PushBack
    <3> QED BY <1>2, <3>1
  <2>2. CASE DispatchQuit(w) \/ DispatchClose(w)
    BY <1>2, <2>2, SMTT(20) DEF DispatchQuit, DispatchClose
  <2>3. CASE DispatchEmpty(w) \/ DispatchMessage(w)
    BY <1>2, <2>3, SMTT(20) DEF DispatchEmpty, DispatchMessage
  <2> QED BY <1>3, <2>1, <2>2, <2>3 DEF Dispatch
<1>4. ASSUME NEW w \in Thread, Dispose(w)
      PROVE  pc'[v] = "destroy" /\ new'[v] = new[v] /\ cur'[v] = cur[v]
  <2>1. CASE Destroy(w)
    <3>1. w # v
      BY <2>1 DEF Destroy
    <3> QED BY <1>2, <2>1, <3>1 DEF Destroy
  <2>2. CASE ~Destroy(w)
    BY <1>2, <1>4, <2>2, SMTT(30) DEF Dispose, SetQuit, TrashMessage, EndTrash, Finalize, EndClosing,
                            EndFailing, Decrement, Release, Closing, InLua
  <2> QED BY <2>1, <2>2
<1>5. ASSUME NEW w \in Thread, Loading(w) \/ Call(w)
      PROVE  pc'[v] = "destroy" /\ new'[v] = new[v] /\ cur'[v] = cur[v]
  <2>1. CASE Loading(w)
    BY <1>2, <2>1, SMTT(20) DEF Loading, EndLoad, FailLoad
  <2>2. CASE \E x \in Cell : (\E msg \in Message : Send(w, x, msg)) \/ FailToPack(w, x) \/ Kill(w, x)
    BY <1>2, <2>2, SMTT(20) DEF Send, FailToPack, Kill
  <2>3. CASE \E x \in Cell : Collect(w, x)
    BY <1>2, <2>3, SMTT(20) DEF Collect
  <2>4. CASE \E n \in Cell : Launch(w, n)
    BY <1>2, <2>4, SMTT(20) DEF Launch, InLua
  <2> QED BY <1>5, <2>1, <2>2, <2>3, <2>4 DEF Call
<1>6. CASE StartThreads
  BY <1>2, <1>6 DEF StartThreads, Phases, Booting
<1>7. ASSUME NEW w \in Worker, EndRound(w)
      PROVE  pc'[v] = "destroy" /\ new'[v] = new[v] /\ cur'[v] = cur[v]
  BY <1>2, <1>7 DEF EndRound
<1>8. CASE Tick \/ StopTimer \/ Return \/ Stopped \/ UNCHANGED vars
  BY <1>2, <1>8 DEF Tick, StopTimer, Return, Stopped, vars
<1> QED BY <1>3, <1>4, <1>5, <1>6, <1>7, <1>8 DEF Next

\* A Lua state is closed only after close or quit was set, or by a cell_new that fails.
LEMMA ClosedIsMarkedStep ==
  ASSUME IInv, [Next]_vars
  PROVE  ClosedIsMarked'
<1> USE ThreadAssumption, CellAssumption
<1> USE DEF IInv, TypeOK, Thread, At, Goto, threads, cells, ClosedIsMarked, States
<1>0. \A v \in Thread : FailedToLoad(v) /\ Actor(v) \in alloc' =>
        FailedToLoad(v)' /\ Actor(v)' = Actor(v)
  BY FailedToLoadKept
<1>1. ASSUME NEW w \in Thread, Dispatch(w) PROVE ClosedIsMarked'
  <2>1. CASE Take(w)
    BY <1>0, <2>1 DEF Take
  <2>2. CASE DispatchQuit(w)
    BY <1>0, <2>2 DEF DispatchQuit
  <2>3. CASE DispatchClose(w)
    BY <1>0, <2>3 DEF DispatchClose
  <2>4. CASE DispatchEmpty(w)
    BY <1>0, <2>4 DEF DispatchEmpty
  <2>5. CASE DispatchMessage(w)
    BY <1>0, <2>5 DEF DispatchMessage
  <2>6. CASE EndMessage(w)
    BY <1>0, <2>6 DEF EndMessage
  <2>7. CASE PushBack(w)
    BY <1>0, <2>7 DEF PushBack
  <2> QED BY <1>1, <2>1, <2>2, <2>3, <2>4, <2>5, <2>6, <2>7 DEF Dispatch
<1>2. ASSUME NEW w \in Thread, Dispose(w) PROVE ClosedIsMarked'
  <2>1. CASE SetQuit(w)
    BY <1>0, <2>1 DEF SetQuit
  <2>2. CASE TrashMessage(w)
    BY <1>0, <2>2 DEF TrashMessage
  <2>3. CASE EndTrash(w)
    BY <1>0, <2>3 DEF EndTrash
  <2>4. ASSUME NEW x \in Cell, Finalize(w, x) PROVE ClosedIsMarked'
    BY <1>0, <2>4 DEF Finalize
  <2>5. CASE EndClosing(w)
    BY <1>0, <2>5 DEF EndClosing
  <2>6. CASE EndFailing(w)
    <3>1. FailedToLoad(w)' /\ Actor(w)' = Actor(w) /\ Actor(w) \in Cell
      BY <2>6, Failed DEF EndFailing, FailedToLoad, Actor
    <3>2. \A c \in Cell : c # Actor(w) => L'[c] = L[c]
      BY <2>6 DEF EndFailing
    <3> QED BY <1>0, <2>6, <3>1, <3>2 DEF EndFailing
  <2>7. CASE Destroy(w)
    BY <1>0, <2>7 DEF Destroy
  <2>8. CASE Decrement(w)
    BY <1>0, <2>8 DEF Decrement
  <2> QED BY <1>2, <2>1, <2>2, <2>3, <2>4, <2>5, <2>6, <2>7, <2>8 DEF Dispose
<1>3. ASSUME NEW w \in Thread, Loading(w) PROVE ClosedIsMarked'
  <2>1. CASE EndLoad(w)
    BY <1>0, <2>1 DEF EndLoad
  <2>2. CASE FailLoad(w)
    BY <1>0, <2>2 DEF FailLoad
  <2> QED BY <1>3, <2>1, <2>2 DEF Loading
<1>4. ASSUME NEW w \in Thread, Call(w) PROVE ClosedIsMarked'
  <2>1. ASSUME NEW x \in Cell, NEW msg \in Message, Send(w, x, msg) PROVE ClosedIsMarked'
    BY <1>0, <2>1 DEF Send
  <2>2. ASSUME NEW x \in Cell, FailToPack(w, x) PROVE ClosedIsMarked'
    BY <1>0, <2>2 DEF FailToPack
  <2>3. ASSUME NEW x \in Cell, Collect(w, x) PROVE ClosedIsMarked'
    BY <1>0, <2>3 DEF Collect
  <2>4. ASSUME NEW x \in Cell, Kill(w, x) PROVE ClosedIsMarked'
    BY <1>0, <2>4 DEF Kill
  <2>5. ASSUME NEW n \in Cell, Launch(w, n) PROVE ClosedIsMarked'
    BY <1>0, <2>5 DEF Launch
  <2> QED BY <1>4, <2>1, <2>2, <2>3, <2>4, <2>5 DEF Call
<1>5. ASSUME NEW w \in Worker, EndRound(w) PROVE ClosedIsMarked'
  BY <1>0, <1>5 DEF EndRound
<1>6. CASE StartThreads
  BY <1>0, <1>6 DEF StartThreads
<1>7. CASE Tick
  BY <1>0, <1>7 DEF Tick
<1>8. CASE Return
  BY <1>0, <1>8 DEF Return
<1>9. CASE StopTimer \/ Stopped \/ UNCHANGED vars
  BY <1>0, <1>9 DEF StopTimer, Stopped, vars
<1> QED BY <1>1, <1>2, <1>3, <1>4, <1>5, <1>6, <1>7, <1>8, <1>9 DEF Next

\* What a thread closes stays closed.
LEMMA TrashIsClosedStep ==
  ASSUME IInv, [Next]_vars
  PROVE  TrashIsClosed'
<1> USE ThreadAssumption, CellAssumption
<1> USE DEF IInv, TypeOK, Thread, At, Goto, threads, cells, TrashIsClosed, States
<1>1. ASSUME NEW w \in Thread, Dispatch(w) PROVE TrashIsClosed'
  <2>1. CASE Take(w)
    BY <2>1 DEF Take
  <2>2. CASE DispatchQuit(w)
    BY <2>2 DEF DispatchQuit
  <2>3. CASE DispatchClose(w)
    <3>1. cur[w] \in Cell /\ close[cur[w]] /\ L' = [L EXCEPT ![cur[w]] = FALSE]
      BY <2>3, ActorType DEF DispatchClose
    <3>2. \A v \in Worker : v # w => pc'[v] = pc[v]
      BY <2>3 DEF DispatchClose
    <3> QED BY <2>3, <3>1, <3>2 DEF DispatchClose
  <2>4. CASE DispatchEmpty(w)
    BY <2>4 DEF DispatchEmpty
  <2>5. CASE DispatchMessage(w)
    BY <2>5 DEF DispatchMessage
  <2>6. CASE EndMessage(w)
    BY <2>6 DEF EndMessage
  <2>7. CASE PushBack(w)
    BY <2>7 DEF PushBack
  <2> QED BY <1>1, <2>1, <2>2, <2>3, <2>4, <2>5, <2>6, <2>7 DEF Dispatch
<1>2. ASSUME NEW w \in Thread, Dispose(w) PROVE TrashIsClosed'
  <2>1. CASE SetQuit(w)
    BY <2>1 DEF SetQuit
  <2>2. CASE TrashMessage(w)
    BY <2>2 DEF TrashMessage
  <2>3. CASE EndTrash(w)
    BY <2>3 DEF EndTrash
  <2>4. ASSUME NEW x \in Cell, Finalize(w, x) PROVE TrashIsClosed'
    BY <2>4 DEF Finalize
  <2>5. CASE EndClosing(w)
    BY <2>5 DEF EndClosing
  <2>6. CASE EndFailing(w)
    BY <2>6 DEF EndFailing
  <2>7. CASE Destroy(w)
    <3>1. Actor(w) \in Cell /\ \A v \in Thread : v # w => cur[v] # Actor(w)
      BY <2>7, Destroyed DEF Destroy
    <3>2. L' = L /\ close' = [close EXCEPT ![Actor(w)] = FALSE]
      BY <2>7 DEF Destroy
    <3>3. \A v \in Worker : pc'[v] \in {"trash", "closing"} =>
            v # w /\ pc[v] = pc'[v] /\ cur'[v] = cur[v] /\ cur[v] \in Cell
      <4>1. /\ pc' = [pc EXCEPT ![w] = IF new[w] # NoCell THEN (IF w = main THEN "failing" ELSE Caller)
                                       ELSE (IF w = main THEN "returned" ELSE "dec")]
            /\ \A v \in Thread \ {w} : cur'[v] = cur[v]
        BY <2>7 DEF Destroy
      <4>2. w # main => Caller = "run"
        <5>1. w # main => pc[main] = "join"
          BY <2>7, ActorType DEF Destroy
        <5> QED BY <5>1 DEF Caller, SystemOpen
      <4>3. pc'[w] \notin {"trash", "closing"}
        BY <4>1, <4>2
      <4>4. \A v \in Worker : pc'[v] \in {"trash", "closing"} =>
              v # w /\ pc[v] = pc'[v] /\ cur'[v] = cur[v]
        BY <4>1, <4>3
      <4> HIDE DEF IInv
      <4> QED BY <4>4, ActorType
    <3> QED BY <3>1, <3>2, <3>3
  <2>8. CASE Decrement(w)
    BY <2>8 DEF Decrement
  <2> QED BY <1>2, <2>1, <2>2, <2>3, <2>4, <2>5, <2>6, <2>7, <2>8 DEF Dispose
<1>3. ASSUME NEW w \in Thread, Loading(w) PROVE TrashIsClosed'
  <2>1. CASE EndLoad(w)
    <3>1. L[system]
      BY <2>1 DEF EndLoad, SystemOpen, Phases, Booting
    <3>2. \A v \in Worker : pc'[v] \in {"trash", "closing"} => pc[v] = pc'[v]
      BY <2>1, <3>1 DEF EndLoad, Caller
    <3> QED BY <2>1, <3>2 DEF EndLoad
  <2>2. CASE FailLoad(w)
    BY <2>2 DEF FailLoad
  <2> QED BY <1>3, <2>1, <2>2 DEF Loading
<1>4. ASSUME NEW w \in Thread, Call(w) PROVE TrashIsClosed'
  <2>1. ASSUME NEW x \in Cell, NEW msg \in Message, Send(w, x, msg) PROVE TrashIsClosed'
    BY <2>1 DEF Send
  <2>2. ASSUME NEW x \in Cell, FailToPack(w, x) PROVE TrashIsClosed'
    BY <2>2 DEF FailToPack
  <2>3. ASSUME NEW x \in Cell, Collect(w, x) PROVE TrashIsClosed'
    BY <2>3 DEF Collect
  <2>4. ASSUME NEW x \in Cell, Kill(w, x) PROVE TrashIsClosed'
    BY <2>4 DEF Kill
  <2>5. ASSUME NEW n \in Cell, Launch(w, n) PROVE TrashIsClosed'
    <3>0. \A v \in Worker : pc[v] \in {"trash", "closing"} => cur[v] \in alloc
      BY ActorType DEF NoDangling
    <3>1. \A v \in Worker : pc'[v] \in {"trash", "closing"} =>
            pc[v] = pc'[v] /\ cur'[v] = cur[v] /\ cur[v] \in Cell /\ cur[v] \in alloc
      <4>1. \A v \in Worker : pc'[v] \in {"trash", "closing"} => pc[v] = pc'[v] /\ cur'[v] = cur[v]
        BY <2>5 DEF Launch
      <4> QED BY <3>0, <4>1
    <3>2. \A c \in alloc : L'[c] = L[c] /\ close'[c] = close[c]
      <4>1. n \notin alloc /\ L' = [L EXCEPT ![n] = TRUE] /\ close' = close
        BY <2>5 DEF Launch
      <4>2. L \in [Cell -> BOOLEAN] /\ alloc \subseteq Cell
        OBVIOUS
      <4> HIDE DEF IInv, TypeOK, States, TrashIsClosed
      <4> QED BY <4>1, <4>2
    <3> QED BY <3>1, <3>2
  <2> QED BY <1>4, <2>1, <2>2, <2>3, <2>4, <2>5 DEF Call
<1>5. ASSUME NEW w \in Worker, EndRound(w) PROVE TrashIsClosed'
  BY <1>5 DEF EndRound
<1>6. CASE StartThreads
  BY <1>6 DEF StartThreads
<1>7. CASE Tick
  BY <1>7 DEF Tick
<1>8. CASE Return
  BY <1>8 DEF Return
<1>9. CASE StopTimer \/ Stopped \/ UNCHANGED vars
  BY <1>9 DEF StopTimer, Stopped, vars
<1> QED BY <1>1, <1>2, <1>3, <1>4, <1>5, <1>6, <1>7, <1>8, <1>9 DEF Next

\* A cell that loads, or fails to, has its Lua state.
LEMMA LoadIsOpenStep ==
  ASSUME IInv, [Next]_vars
  PROVE  LoadIsOpen'
<1> USE ThreadAssumption, CellAssumption
<1> USE DEF IInv, TypeOK, Thread, At, Goto, threads, cells, LoadIsOpen, States
<1>1. ASSUME NEW w \in Thread, Dispatch(w) PROVE LoadIsOpen'
  <2>1. CASE Take(w)
    BY <2>1 DEF Take, Actor
  <2>2. CASE DispatchQuit(w)
    BY <2>2 DEF DispatchQuit, Actor
  <2>3. CASE DispatchClose(w)
    <3>1. cur[w] \in Cell /\ \A v \in Thread : v # w /\ pc[v] \in {"load", "failing"} => Actor(v) # cur[w]
      BY <2>3, ActorType, ActorsApart DEF DispatchClose
    <3>2. L' = [L EXCEPT ![cur[w]] = FALSE]
      BY <2>3 DEF DispatchClose
    <3>3. \A v \in Thread : pc'[v] \in {"load", "failing"} => v # w /\ pc[v] = pc'[v] /\ Actor(v)' = Actor(v)
      BY <2>3 DEF DispatchClose, Actor
    <3> QED BY <3>1, <3>2, <3>3
  <2>4. CASE DispatchEmpty(w)
    BY <2>4 DEF DispatchEmpty, Actor
  <2>5. CASE DispatchMessage(w)
    BY <2>5 DEF DispatchMessage, Actor
  <2>6. CASE EndMessage(w)
    BY <2>6 DEF EndMessage, Actor
  <2>7. CASE PushBack(w)
    BY <2>7 DEF PushBack, Actor
  <2> QED BY <1>1, <2>1, <2>2, <2>3, <2>4, <2>5, <2>6, <2>7 DEF Dispatch
<1>2. ASSUME NEW w \in Thread, Dispose(w) PROVE LoadIsOpen'
  <2>1. CASE SetQuit(w)
    BY <2>1 DEF SetQuit, Actor
  <2>2. CASE TrashMessage(w)
    BY <2>2 DEF TrashMessage, Actor
  <2>3. CASE EndTrash(w)
    BY <2>3 DEF EndTrash, Actor
  <2>4. ASSUME NEW x \in Cell, Finalize(w, x) PROVE LoadIsOpen'
    BY <2>4 DEF Finalize, Actor
  <2>5. CASE EndClosing(w)
    BY <2>5 DEF EndClosing, Actor
  <2>6. CASE EndFailing(w)
    <3>1. Actor(w) \in Cell /\ \A v \in Thread : v # w /\ pc[v] \in {"load", "failing"} => Actor(v) # Actor(w)
      BY <2>6, ActorType, ActorsApart DEF EndFailing
    <3>2. L' = [L EXCEPT ![Actor(w)] = FALSE]
      BY <2>6 DEF EndFailing
    <3>3. \A v \in Thread : pc'[v] \in {"load", "failing"} => v # w /\ pc[v] = pc'[v] /\ Actor(v)' = Actor(v)
      BY <2>6 DEF EndFailing, Actor
    <3> QED BY <3>1, <3>2, <3>3
  <2>7. CASE Destroy(w)
    <3>1. \A v \in Thread : v # w => pc'[v] = pc[v] /\ Actor(v)' = Actor(v)
      BY <2>7 DEF Destroy, Actor
    <3>2. pc'[w] \in {"load", "failing"} => new[main] # NoCell /\ Actor(w)' = system
      BY <2>7 DEF Destroy, Actor, Caller, Phases
    <3>3. L' = L /\ (new[main] # NoCell => L[system])
      BY <2>7 DEF Destroy, SystemOpen
    <3>4. ASSUME NEW v \in Thread, pc'[v] \in {"load", "failing"}
          PROVE  L'[Actor(v)']
      <4>1. CASE v = w
        BY <3>2, <3>3, <3>4, <4>1
      <4>2. CASE v # w
        <5>1. pc[v] \in {"load", "failing"} /\ Actor(v)' = Actor(v)
          BY <3>1, <3>4, <4>2
        <5> QED BY <3>3, <5>1
      <4> QED BY <4>1, <4>2
    <3> QED BY <3>4
  <2>8. CASE Decrement(w)
    BY <2>8 DEF Decrement, Actor
  <2> QED BY <1>2, <2>1, <2>2, <2>3, <2>4, <2>5, <2>6, <2>7, <2>8 DEF Dispose
<1>3. ASSUME NEW w \in Thread, Loading(w) PROVE LoadIsOpen'
  <2>1. CASE EndLoad(w)
    <3>1. \A v \in Thread : pc'[v] \in {"load", "failing"} => pc[v] = pc'[v] /\ Actor(v)' = Actor(v)
      BY <2>1 DEF EndLoad, Actor, Caller
    <3> QED BY <2>1, <3>1 DEF EndLoad
  <2>2. CASE FailLoad(w)
    BY <2>2 DEF FailLoad, Actor
  <2> QED BY <1>3, <2>1, <2>2 DEF Loading
<1>4. ASSUME NEW w \in Thread, Call(w) PROVE LoadIsOpen'
  <2>1. ASSUME NEW x \in Cell, NEW msg \in Message, Send(w, x, msg) PROVE LoadIsOpen'
    BY <2>1 DEF Send, Actor
  <2>2. ASSUME NEW x \in Cell, FailToPack(w, x) PROVE LoadIsOpen'
    BY <2>2 DEF FailToPack, Actor
  <2>3. ASSUME NEW x \in Cell, Collect(w, x) PROVE LoadIsOpen'
    BY <2>3 DEF Collect, Actor
  <2>4. ASSUME NEW x \in Cell, Kill(w, x) PROVE LoadIsOpen'
    BY <2>4 DEF Kill, Actor
  <2>5. ASSUME NEW n \in Cell, Launch(w, n) PROVE LoadIsOpen'
    <3>1. \A v \in Thread : v # w => pc[v] = pc'[v] /\ Actor(v)' = Actor(v)
      BY <2>5 DEF Launch, Actor
    <3>2. Actor(w)' = n
      BY <2>5 DEF Launch, Actor
    <3>3. L' = [L EXCEPT ![n] = TRUE]
      BY <2>5 DEF Launch
    <3>4. ASSUME NEW v \in Thread, pc'[v] \in {"load", "failing"}
          PROVE  L'[Actor(v)']
      <4>1. CASE v = w
        BY <3>2, <3>3, <4>1
      <4>2. CASE v # w
        <5>1. pc[v] \in {"load", "failing"} /\ Actor(v)' = Actor(v) /\ Actor(v) \in Cell
          BY <3>1, <3>4, <4>2, ActorType
        <5> QED BY <3>3, <5>1
      <4> QED BY <4>1, <4>2
    <3> QED BY <3>4
  <2> QED BY <1>4, <2>1, <2>2, <2>3, <2>4, <2>5 DEF Call
<1>5. ASSUME NEW w \in Worker, EndRound(w) PROVE LoadIsOpen'
  BY <1>5 DEF EndRound, Actor
<1>6. CASE StartThreads
  BY <1>6 DEF StartThreads, Actor
<1>7. CASE Tick
  BY <1>7 DEF Tick, Actor
<1>8. CASE Return
  BY <1>8 DEF Return, Actor
<1>9. CASE StopTimer \/ Stopped \/ UNCHANGED vars
  BY <1>9 DEF StopTimer, Stopped, vars, Actor
<1> QED BY <1>1, <1>2, <1>3, <1>4, <1>5, <1>6, <1>7, <1>8, <1>9 DEF Next

\* No step leaves a message behind in a cell that dispatches no more.
LEMMA QueueIsServedStep ==
  ASSUME IInv, [Next]_vars
  PROVE  QueueIsServed'
<1> USE ThreadAssumption, CellAssumption
<1> USE DEF IInv, TypeOK, Thread, At, Goto, threads, cells, QueueIsServed, States
<1>0. \A v \in Thread : FailedToLoad(v) /\ Actor(v) \in alloc' =>
        FailedToLoad(v)' /\ Actor(v)' = Actor(v)
  BY FailedToLoadKept
<1>1. ASSUME NEW w \in Thread, Dispatch(w) PROVE QueueIsServed'
  <2>1. CASE Take(w)
    <3>1. \A c \in alloc' : mq'[c] # <<>> /\ ~L'[c] => c \in alloc /\ mq[c] # <<>> /\ ~L[c]
      BY <2>1 DEF Take
    <3>2. \A v \in Worker : pc[v] = "trash" /\ mq'[cur[v]] # <<>> => pc'[v] = "trash" /\ cur'[v] = cur[v]
      BY <2>1 DEF Take
    <3> HIDE DEF IInv, TypeOK, QueueIsServed, States
    <3> QED BY <1>0, <3>1, <3>2, QueueIsServedSame
  <2>2. CASE DispatchQuit(w)
    <3>1. \A c \in alloc' : mq'[c] # <<>> /\ ~L'[c] => c \in alloc /\ mq[c] # <<>> /\ ~L[c]
      BY <2>2 DEF DispatchQuit
    <3>2. \A v \in Worker : pc[v] = "trash" /\ mq'[cur[v]] # <<>> => pc'[v] = "trash" /\ cur'[v] = cur[v]
      BY <2>2 DEF DispatchQuit
    <3> HIDE DEF IInv, TypeOK, QueueIsServed, States
    <3> QED BY <1>0, <3>1, <3>2, QueueIsServedSame
  <2>3. CASE DispatchClose(w)
    <3>1. cur[w] \in Cell
      BY <2>3, ActorType DEF DispatchClose
    <3>2. \A c \in alloc' \ {cur[w]} : c \in alloc /\ L'[c] = L[c] /\ mq'[c] = mq[c]
      <4>1. L' = [L EXCEPT ![cur[w]] = FALSE] /\ UNCHANGED <<alloc, mq>>
        BY <2>3 DEF DispatchClose
      <4>2. L \in [Cell -> BOOLEAN] /\ alloc \subseteq Cell
        OBVIOUS
      <4> HIDE DEF IInv, TypeOK, QueueIsServed, States
      <4> QED BY <4>1, <4>2
    <3>3. \A v \in Worker : pc[v] = "trash" /\ cur[v] # cur[w] => pc'[v] = "trash" /\ cur'[v] = cur[v]
      BY <2>3 DEF DispatchClose
    <3>4. \/ cur[w] \notin alloc' \/ L'[cur[w]] \/ mq'[cur[w]] = <<>>
          \/ \E v \in Worker : cur'[v] = cur[w] /\ pc'[v] = "trash"
      <4>1. w \in Worker /\ pc'[w] = "trash" /\ cur'[w] = cur[w]
        BY <2>3, ActorType DEF DispatchClose, Phases
      <4> QED BY <4>1
    <3> HIDE DEF IInv, TypeOK, QueueIsServed, States
    <3> QED BY <1>0, <3>1, <3>2, <3>3, <3>4, QueueIsServedFrame
  <2>4. CASE DispatchEmpty(w)
    <3>1. \A c \in alloc' : mq'[c] # <<>> /\ ~L'[c] => c \in alloc /\ mq[c] # <<>> /\ ~L[c]
      BY <2>4 DEF DispatchEmpty
    <3>2. \A v \in Worker : pc[v] = "trash" /\ mq'[cur[v]] # <<>> => pc'[v] = "trash" /\ cur'[v] = cur[v]
      BY <2>4 DEF DispatchEmpty
    <3> HIDE DEF IInv, TypeOK, QueueIsServed, States
    <3> QED BY <1>0, <3>1, <3>2, QueueIsServedSame
  <2>5. CASE DispatchMessage(w)
    <3>1. cur[w] \in Cell
      BY <2>5, ActorType DEF DispatchMessage
    <3>2. \A c \in alloc' \ {cur[w]} : c \in alloc /\ L'[c] = L[c] /\ mq'[c] = mq[c]
      BY <2>5, <3>1 DEF DispatchMessage, NextMessage
    <3>3. \A v \in Worker : pc[v] = "trash" /\ cur[v] # cur[w] => pc'[v] = "trash" /\ cur'[v] = cur[v]
      BY <2>5 DEF DispatchMessage
    <3>4. \/ cur[w] \notin alloc' \/ L'[cur[w]] \/ mq'[cur[w]] = <<>>
          \/ \E v \in Worker : cur'[v] = cur[w] /\ pc'[v] = "trash"
      BY <2>5 DEF DispatchMessage
    <3> HIDE DEF IInv, TypeOK, QueueIsServed, States
    <3> QED BY <1>0, <3>1, <3>2, <3>3, <3>4, QueueIsServedFrame
  <2>6. CASE EndMessage(w)
    <3>1. \A c \in alloc' : mq'[c] # <<>> /\ ~L'[c] => c \in alloc /\ mq[c] # <<>> /\ ~L[c]
      BY <2>6 DEF EndMessage
    <3>2. \A v \in Worker : pc[v] = "trash" /\ mq'[cur[v]] # <<>> => pc'[v] = "trash" /\ cur'[v] = cur[v]
      BY <2>6 DEF EndMessage
    <3> HIDE DEF IInv, TypeOK, QueueIsServed, States
    <3> QED BY <1>0, <3>1, <3>2, QueueIsServedSame
  <2>7. CASE PushBack(w)
    <3>1. \A c \in alloc' : mq'[c] # <<>> /\ ~L'[c] => c \in alloc /\ mq[c] # <<>> /\ ~L[c]
      BY <2>7 DEF PushBack
    <3>2. \A v \in Worker : pc[v] = "trash" /\ mq'[cur[v]] # <<>> => pc'[v] = "trash" /\ cur'[v] = cur[v]
      BY <2>7 DEF PushBack
    <3> HIDE DEF IInv, TypeOK, QueueIsServed, States
    <3> QED BY <1>0, <3>1, <3>2, QueueIsServedSame
  <2> QED BY <1>1, <2>1, <2>2, <2>3, <2>4, <2>5, <2>6, <2>7 DEF Dispatch
<1>2. ASSUME NEW w \in Thread, Dispose(w) PROVE QueueIsServed'
  <2>1. CASE SetQuit(w)
    <3>1. \A c \in alloc' : mq'[c] # <<>> /\ ~L'[c] => c \in alloc /\ mq[c] # <<>> /\ ~L[c]
      BY <2>1 DEF SetQuit
    <3>2. \A v \in Worker : pc[v] = "trash" /\ mq'[cur[v]] # <<>> => pc'[v] = "trash" /\ cur'[v] = cur[v]
      BY <2>1 DEF SetQuit
    <3> HIDE DEF IInv, TypeOK, QueueIsServed, States
    <3> QED BY <1>0, <3>1, <3>2, QueueIsServedSame
  <2>2. CASE TrashMessage(w)
    <3>1. cur[w] \in Cell
      BY <2>2, ActorType DEF TrashMessage
    <3>2. \A c \in alloc' \ {cur[w]} : c \in alloc /\ L'[c] = L[c] /\ mq'[c] = mq[c]
      BY <2>2, <3>1 DEF TrashMessage, NextMessage
    <3>3. \A v \in Worker : pc[v] = "trash" /\ cur[v] # cur[w] => pc'[v] = "trash" /\ cur'[v] = cur[v]
      BY <2>2 DEF TrashMessage
    <3>4. \/ cur[w] \notin alloc' \/ L'[cur[w]] \/ mq'[cur[w]] = <<>>
          \/ \E v \in Worker : cur'[v] = cur[w] /\ pc'[v] = "trash"
      <4>1. w \in Worker /\ pc'[w] = "trash" /\ cur'[w] = cur[w]
        BY <2>2, ActorType DEF TrashMessage, Phases
      <4> QED BY <4>1
    <3> HIDE DEF IInv, TypeOK, QueueIsServed, States
    <3> QED BY <1>0, <3>1, <3>2, <3>3, <3>4, QueueIsServedFrame
  <2>3. CASE EndTrash(w)
    <3>1. \A c \in alloc' : mq'[c] # <<>> /\ ~L'[c] => c \in alloc /\ mq[c] # <<>> /\ ~L[c]
      BY <2>3 DEF EndTrash
    <3>2. \A v \in Worker : pc[v] = "trash" /\ mq'[cur[v]] # <<>> => pc'[v] = "trash" /\ cur'[v] = cur[v]
      BY <2>3 DEF EndTrash
    <3> HIDE DEF IInv, TypeOK, QueueIsServed, States
    <3> QED BY <1>0, <3>1, <3>2, QueueIsServedSame
  <2>4. ASSUME NEW x \in Cell, Finalize(w, x) PROVE QueueIsServed'
    <3>1. \A c \in alloc' : mq'[c] # <<>> /\ ~L'[c] => c \in alloc /\ mq[c] # <<>> /\ ~L[c]
      BY <2>4 DEF Finalize
    <3>2. \A v \in Worker : pc[v] = "trash" /\ mq'[cur[v]] # <<>> => pc'[v] = "trash" /\ cur'[v] = cur[v]
      BY <2>4 DEF Finalize
    <3> HIDE DEF IInv, TypeOK, QueueIsServed, States
    <3> QED BY <1>0, <3>1, <3>2, QueueIsServedSame
  <2>5. CASE EndClosing(w)
    <3>1. \A c \in alloc' : mq'[c] # <<>> /\ ~L'[c] => c \in alloc /\ mq[c] # <<>> /\ ~L[c]
      BY <2>5 DEF EndClosing
    <3>2. \A v \in Worker : pc[v] = "trash" /\ mq'[cur[v]] # <<>> => pc'[v] = "trash" /\ cur'[v] = cur[v]
      BY <2>5 DEF EndClosing
    <3> HIDE DEF IInv, TypeOK, QueueIsServed, States
    <3> QED BY <1>0, <3>1, <3>2, QueueIsServedSame
  <2>6. CASE EndFailing(w)
    <3>1. Actor(w) \in Cell /\ FailedToLoad(w)' /\ Actor(w)' = Actor(w)
      BY <2>6, Failed DEF EndFailing, FailedToLoad, Actor
    <3>2. \A c \in alloc' \ {Actor(w)} : c \in alloc /\ L'[c] = L[c] /\ mq'[c] = mq[c]
      BY <2>6, <3>1 DEF EndFailing
    <3>3. \A v \in Worker : pc[v] = "trash" => pc'[v] = "trash" /\ cur'[v] = cur[v]
      BY <2>6 DEF EndFailing
    <3> HIDE DEF IInv, TypeOK, QueueIsServed, States
    <3> QED BY <1>0, <3>1, <3>2, <3>3, QueueIsServedFrame
  <2>7. CASE Destroy(w)
    <3>1. Actor(w) \in Cell
      BY <2>7, Destroyed DEF Destroy
    <3>2. \A c \in alloc' \ {Actor(w)} : c \in alloc /\ L'[c] = L[c] /\ mq'[c] = mq[c]
      BY <2>7, <3>1 DEF Destroy
    <3>3. \A v \in Worker : pc[v] = "trash" /\ cur[v] # Actor(w) => pc'[v] = "trash" /\ cur'[v] = cur[v]
      BY <2>7 DEF Destroy
    <3>4. Actor(w) \notin alloc'
      BY <2>7 DEF Destroy
    <3> HIDE DEF IInv, TypeOK, QueueIsServed, States
    <3> QED BY <1>0, <3>1, <3>2, <3>3, <3>4, QueueIsServedFrame
  <2>8. CASE Decrement(w)
    <3>1. \A c \in alloc' : mq'[c] # <<>> /\ ~L'[c] => c \in alloc /\ mq[c] # <<>> /\ ~L[c]
      BY <2>8 DEF Decrement
    <3>2. \A v \in Worker : pc[v] = "trash" /\ mq'[cur[v]] # <<>> => pc'[v] = "trash" /\ cur'[v] = cur[v]
      BY <2>8 DEF Decrement
    <3> HIDE DEF IInv, TypeOK, QueueIsServed, States
    <3> QED BY <1>0, <3>1, <3>2, QueueIsServedSame
  <2> QED BY <1>2, <2>1, <2>2, <2>3, <2>4, <2>5, <2>6, <2>7, <2>8 DEF Dispose
<1>3. ASSUME NEW w \in Thread, Loading(w) PROVE QueueIsServed'
  <2>1. CASE EndLoad(w)
    <3>1. \A c \in alloc' : mq'[c] # <<>> /\ ~L'[c] => c \in alloc /\ mq[c] # <<>> /\ ~L[c]
      BY <2>1 DEF EndLoad
    <3>2. \A v \in Worker : pc[v] = "trash" /\ mq'[cur[v]] # <<>> => pc'[v] = "trash" /\ cur'[v] = cur[v]
      BY <2>1 DEF EndLoad
    <3> HIDE DEF IInv, TypeOK, QueueIsServed, States
    <3> QED BY <1>0, <3>1, <3>2, QueueIsServedSame
  <2>2. CASE FailLoad(w)
    <3>1. \A c \in alloc' : mq'[c] # <<>> /\ ~L'[c] => c \in alloc /\ mq[c] # <<>> /\ ~L[c]
      BY <2>2 DEF FailLoad
    <3>2. \A v \in Worker : pc[v] = "trash" /\ mq'[cur[v]] # <<>> => pc'[v] = "trash" /\ cur'[v] = cur[v]
      BY <2>2 DEF FailLoad
    <3> HIDE DEF IInv, TypeOK, QueueIsServed, States
    <3> QED BY <1>0, <3>1, <3>2, QueueIsServedSame
  <2> QED BY <1>3, <2>1, <2>2 DEF Loading
<1>4. ASSUME NEW w \in Thread, Call(w) PROVE QueueIsServed'
  <2>1. ASSUME NEW x \in Cell, NEW msg \in Message, Send(w, x, msg) PROVE QueueIsServed'
    <3>1. x \in alloc /\ (L[x] \/ \E v \in Thread : FailedToLoad(v) /\ Actor(v) = x)
      <4>1. x \in map[Actor(w)] /\ ~quit[x] /\ ~close[x] /\ Actor(w) \in Cell
        BY <2>1, ActorType DEF Send, InLua, Accepts
      <4>2. x \in alloc
        BY <4>1 DEF NoDangling
      <4> QED BY <4>1, <4>2 DEF ClosedIsMarked
    <3>2. \A c \in Cell : c # x => mq'[c] = mq[c]
      BY <2>1 DEF Send
    <3>3. \A v \in Thread : v \in Worker /\ pc[v] = "trash" => pc'[v] = "trash" /\ cur'[v] = cur[v]
      BY <2>1 DEF Send
    <3>4. UNCHANGED <<alloc, L>>
      BY <2>1 DEF Send
    <3>5. \A c \in alloc' \ {x} : c \in alloc /\ L'[c] = L[c] /\ mq'[c] = mq[c]
      BY <3>2, <3>4
    <3>6. CASE L[x]
      <4> HIDE DEF IInv, TypeOK, QueueIsServed, States
      <4> QED BY <1>0, <3>1, <3>3, <3>4, <3>5, <3>6, QueueIsServedFrame
    <3>7. CASE \E v \in Thread : FailedToLoad(v) /\ Actor(v) = x
      <4>1. \E v \in Thread : FailedToLoad(v)' /\ Actor(v)' = x
        BY <1>0, <3>1, <3>4, <3>7
      <4> HIDE DEF IInv, TypeOK, QueueIsServed, States
      <4> QED BY <1>0, <3>1, <3>3, <3>5, <4>1, QueueIsServedFrame
    <3> QED BY <3>1, <3>6, <3>7
  <2>2. ASSUME NEW x \in Cell, FailToPack(w, x) PROVE QueueIsServed'
    <3>1. \A c \in alloc' : mq'[c] # <<>> /\ ~L'[c] => c \in alloc /\ mq[c] # <<>> /\ ~L[c]
      BY <2>2 DEF FailToPack
    <3>2. \A v \in Worker : pc[v] = "trash" /\ mq'[cur[v]] # <<>> => pc'[v] = "trash" /\ cur'[v] = cur[v]
      BY <2>2 DEF FailToPack
    <3> HIDE DEF IInv, TypeOK, QueueIsServed, States
    <3> QED BY <1>0, <3>1, <3>2, QueueIsServedSame
  <2>3. ASSUME NEW x \in Cell, Collect(w, x) PROVE QueueIsServed'
    <3>1. \A c \in alloc' : mq'[c] # <<>> /\ ~L'[c] => c \in alloc /\ mq[c] # <<>> /\ ~L[c]
      BY <2>3 DEF Collect
    <3>2. \A v \in Worker : pc[v] = "trash" /\ mq'[cur[v]] # <<>> => pc'[v] = "trash" /\ cur'[v] = cur[v]
      BY <2>3 DEF Collect
    <3> HIDE DEF IInv, TypeOK, QueueIsServed, States
    <3> QED BY <1>0, <3>1, <3>2, QueueIsServedSame
  <2>4. ASSUME NEW x \in Cell, Kill(w, x) PROVE QueueIsServed'
    <3>1. \A c \in alloc' : mq'[c] # <<>> /\ ~L'[c] => c \in alloc /\ mq[c] # <<>> /\ ~L[c]
      BY <2>4 DEF Kill
    <3>2. \A v \in Worker : pc[v] = "trash" /\ mq'[cur[v]] # <<>> => pc'[v] = "trash" /\ cur'[v] = cur[v]
      BY <2>4 DEF Kill
    <3> HIDE DEF IInv, TypeOK, QueueIsServed, States
    <3> QED BY <1>0, <3>1, <3>2, QueueIsServedSame
  <2>5. ASSUME NEW n \in Cell, Launch(w, n) PROVE QueueIsServed'
    <3>0. pc[w] # "trash"
      BY <2>5 DEF Launch, Actor, InLua, Phases, TrashIsClosed, SystemOpen, Booting
    <3>1. \A c \in alloc' \ {n} : c \in alloc /\ L'[c] = L[c] /\ mq'[c] = mq[c]
      BY <2>5 DEF Launch
    <3>2. \A v \in Worker : pc[v] = "trash" /\ cur[v] # n => pc'[v] = "trash" /\ cur'[v] = cur[v]
      BY <2>5, <3>0 DEF Launch, InLua
    <3>3. L'[n]
      BY <2>5 DEF Launch
    <3> HIDE DEF IInv, TypeOK, QueueIsServed, States
    <3> QED BY <1>0, <3>1, <3>2, <3>3, QueueIsServedFrame
  <2> QED BY <1>4, <2>1, <2>2, <2>3, <2>4, <2>5 DEF Call
<1>5. ASSUME NEW w \in Worker, EndRound(w) PROVE QueueIsServed'
  <2>1. \A c \in alloc' : mq'[c] # <<>> /\ ~L'[c] => c \in alloc /\ mq[c] # <<>> /\ ~L[c]
    BY <1>5 DEF EndRound
  <2>2. \A v \in Worker : pc[v] = "trash" /\ mq'[cur[v]] # <<>> => pc'[v] = "trash" /\ cur'[v] = cur[v]
    BY <1>5 DEF EndRound
  <2> HIDE DEF IInv, TypeOK, QueueIsServed, States
  <2> QED BY <1>0, <2>1, <2>2, QueueIsServedSame
<1>6. CASE StartThreads
  <2>1. \A v \in Worker : pc[v] # "trash"
    BY <1>6 DEF StartThreads, Phases, Booting
  <2>2. UNCHANGED <<alloc, L, mq>>
    BY <1>6 DEF StartThreads
  <2> HIDE DEF IInv, TypeOK, QueueIsServed, States
  <2> QED BY <1>0, <2>1, <2>2, QueueIsServedSame
<1>7. CASE Tick
  <2>1. system \in alloc /\ L[system]
    BY <1>7 DEF Tick, Phases, SystemOpen
  <2>2. \A c \in Cell : c # system => mq'[c] = mq[c]
    BY <1>7 DEF Tick
  <2>3. UNCHANGED <<alloc, L, pc, cur>>
    BY <1>7 DEF Tick
  <2>4. \A c \in alloc' : mq'[c] # <<>> /\ ~L'[c] => c \in alloc /\ mq[c] # <<>> /\ ~L[c]
    BY <2>1, <2>2, <2>3
  <2> HIDE DEF IInv, TypeOK, QueueIsServed, States
  <2> QED BY <1>0, <2>3, <2>4, QueueIsServedSame
<1>8. CASE Return
  <2>1. \A c \in alloc' : mq'[c] # <<>> /\ ~L'[c] => c \in alloc /\ mq[c] # <<>> /\ ~L[c]
    BY <1>8 DEF Return
  <2>2. \A v \in Worker : pc[v] = "trash" /\ mq'[cur[v]] # <<>> => pc'[v] = "trash" /\ cur'[v] = cur[v]
    BY <1>8 DEF Return
  <2> HIDE DEF IInv, TypeOK, QueueIsServed, States
  <2> QED BY <1>0, <2>1, <2>2, QueueIsServedSame
<1>9. CASE StopTimer \/ Stopped \/ UNCHANGED vars
  <2>1. L' = L /\ mq' = mq /\ alloc' = alloc /\ pc' = pc /\ cur' = cur
    BY <1>0, <1>9 DEF StopTimer, Stopped, vars
  <2> HIDE DEF IInv, TypeOK, QueueIsServed, States
  <2> QED BY <1>0, <2>1, QueueIsServedSame
<1> QED BY <1>1, <1>2, <1>3, <1>4, <1>5, <1>6, <1>7, <1>8, <1>9 DEF Next

-----------------------------------------------------------------------------
(* What is allocated                                                       *)

\* Where no cell is allocated nothing changes.
LEMMA FreeFrame ==
  ASSUME IInv,
         \A c \in Cell \ alloc' :
           /\ c \notin alloc
           /\ (L'[c] => L[c]) /\ (close'[c] => close[c]) /\ (quit'[c] => quit[c])
           /\ mq'[c] = mq[c] /\ map'[c] = map[c] /\ dying'[c] = dying[c]
           /\ leaked'[c] = leaked[c] /\ ref'[c] = ref[c]
  PROVE  Free'
BY DEF IInv, Free

\* What a thread works on, and what that refers to, is allocated.
LEMMA WorkAllocated ==
  ASSUME IInv, NEW w \in Thread
  PROVE  /\ cur[w] \in Cell => cur[w] \in alloc
         /\ Actor(w) \in Cell => Actor(w) \in alloc
         /\ \A c \in Cell : map[c] \union dying[c] \subseteq alloc
         /\ \A c \in Cell : mq[c] # <<>> => Head(mq[c]) \subseteq alloc
         /\ zero[w] # NoCell => zero[w] \in alloc
<1>1. ASSUME NEW c \in Cell, mq[c] # <<>>
      PROVE  Head(mq[c]) \subseteq alloc
  <2>1. mq[c] \in Seq(Message) /\ ToSet(mq[c]) \subseteq SUBSET alloc
    BY DEF IInv, TypeOK, NoDangling
  <2>2. 1 \in DOMAIN mq[c] /\ Head(mq[c]) = mq[c][1]
    BY <1>1, <2>1, SeqHead
  <2>3. mq[c][1] \in ToSet(mq[c])
    BY <2>2 DEF ToSet
  <2> QED BY <2>1, <2>2, <2>3
<1> QED BY <1>1, ActorAllocated, CellAssumption DEF IInv, NoDangling

\* An address where no cell is allocated is left alone, and destroyed cells leave it clean.
LEMMA FreeStep ==
  ASSUME IInv, [Next]_vars
  PROVE  Free'
<1> USE ThreadAssumption, CellAssumption
<1> USE DEF IInv, TypeOK, Thread, At, Goto, threads, cells
<1>1. ASSUME NEW w \in Thread, Dispatch(w) PROVE Free'
  <2>1. CASE Take(w)
    <3>1. alloc' = alloc /\ \A c \in Cell \ alloc :
            /\ (L'[c] => L[c]) /\ (close'[c] => close[c]) /\ (quit'[c] => quit[c])
            /\ mq'[c] = mq[c] /\ map'[c] = map[c] /\ dying'[c] = dying[c]
            /\ leaked'[c] = leaked[c] /\ ref'[c] = ref[c]
      BY <2>1 DEF Take
    <3> QED BY <3>1, FreeFrame
  <2>2. CASE DispatchQuit(w)
    <3>1. alloc' = alloc /\ \A c \in Cell \ alloc :
            /\ (L'[c] => L[c]) /\ (close'[c] => close[c]) /\ (quit'[c] => quit[c])
            /\ mq'[c] = mq[c] /\ map'[c] = map[c] /\ dying'[c] = dying[c]
            /\ leaked'[c] = leaked[c] /\ ref'[c] = ref[c]
      BY <2>2 DEF DispatchQuit
    <3> QED BY <3>1, FreeFrame
  <2>3. CASE DispatchClose(w)
    <3>0. cur[w] \in Cell /\ cur[w] \in alloc
      BY <2>3, ActorType, WorkAllocated DEF DispatchClose
    <3>1. alloc' = alloc /\ \A c \in Cell \ alloc :
            /\ (L'[c] => L[c]) /\ (close'[c] => close[c]) /\ (quit'[c] => quit[c])
            /\ mq'[c] = mq[c] /\ map'[c] = map[c] /\ dying'[c] = dying[c]
            /\ leaked'[c] = leaked[c] /\ ref'[c] = ref[c]
      BY <2>3, <3>0 DEF DispatchClose, Grabbed
    <3> QED BY <3>1, FreeFrame
  <2>4. CASE DispatchEmpty(w)
    <3>0. cur[w] \in Cell /\ cur[w] \in alloc
      BY <2>4, ActorType, WorkAllocated DEF DispatchEmpty
    <3>1. alloc' = alloc /\ \A c \in Cell \ alloc :
            /\ (L'[c] => L[c]) /\ (close'[c] => close[c]) /\ (quit'[c] => quit[c])
            /\ mq'[c] = mq[c] /\ map'[c] = map[c] /\ dying'[c] = dying[c]
            /\ leaked'[c] = leaked[c] /\ ref'[c] = ref[c]
      BY <2>4, <3>0 DEF DispatchEmpty, Grabbed
    <3> QED BY <3>1, FreeFrame
  <2>5. CASE DispatchMessage(w)
    <3>0. cur[w] \in Cell /\ cur[w] \in alloc
      BY <2>5, ActorType, WorkAllocated DEF DispatchMessage
    <3>2. mq[cur[w]] # <<>> /\ Head(mq[cur[w]]) \subseteq alloc
      BY <2>5, <3>0, WorkAllocated DEF DispatchMessage, NextMessage
    <3>1. alloc' = alloc /\ \A c \in Cell \ alloc :
            /\ (L'[c] => L[c]) /\ (close'[c] => close[c]) /\ (quit'[c] => quit[c])
            /\ mq'[c] = mq[c] /\ map'[c] = map[c] /\ dying'[c] = dying[c]
            /\ leaked'[c] = leaked[c] /\ ref'[c] = ref[c]
      BY <2>5, <3>0, <3>2 DEF DispatchMessage, NextMessage, Unpacked, Grabbed
    <3> QED BY <3>1, FreeFrame
  <2>6. CASE EndMessage(w)
    <3>0. cur[w] \in Cell /\ cur[w] \in alloc
      BY <2>6, ActorType, WorkAllocated DEF EndMessage
    <3>1. alloc' = alloc /\ \A c \in Cell \ alloc :
            /\ (L'[c] => L[c]) /\ (close'[c] => close[c]) /\ (quit'[c] => quit[c])
            /\ mq'[c] = mq[c] /\ map'[c] = map[c] /\ dying'[c] = dying[c]
            /\ leaked'[c] = leaked[c] /\ ref'[c] = ref[c]
      BY <2>6, <3>0 DEF EndMessage, Release
    <3> QED BY <3>1, FreeFrame
  <2>7. CASE PushBack(w)
    <3>1. alloc' = alloc /\ \A c \in Cell \ alloc :
            /\ (L'[c] => L[c]) /\ (close'[c] => close[c]) /\ (quit'[c] => quit[c])
            /\ mq'[c] = mq[c] /\ map'[c] = map[c] /\ dying'[c] = dying[c]
            /\ leaked'[c] = leaked[c] /\ ref'[c] = ref[c]
      BY <2>7 DEF PushBack
    <3> QED BY <3>1, FreeFrame
  <2> QED BY <1>1, <2>1, <2>2, <2>3, <2>4, <2>5, <2>6, <2>7 DEF Dispatch
<1>2. ASSUME NEW w \in Thread, Dispose(w) PROVE Free'
  <2>1. CASE SetQuit(w)
    <3>0. zero[w] \in alloc
      BY <2>1, WorkAllocated DEF SetQuit
    <3>1. alloc' = alloc /\ \A c \in Cell \ alloc :
            /\ (L'[c] => L[c]) /\ (close'[c] => close[c]) /\ (quit'[c] => quit[c])
            /\ mq'[c] = mq[c] /\ map'[c] = map[c] /\ dying'[c] = dying[c]
            /\ leaked'[c] = leaked[c] /\ ref'[c] = ref[c]
      BY <2>1, <3>0 DEF SetQuit
    <3> QED BY <3>1, FreeFrame
  <2>2. CASE TrashMessage(w)
    <3>0. cur[w] \in Cell /\ cur[w] \in alloc
      BY <2>2, ActorType, WorkAllocated DEF TrashMessage
    <3>2. mq[cur[w]] # <<>> /\ Head(mq[cur[w]]) \subseteq alloc
      BY <2>2, <3>0, WorkAllocated DEF TrashMessage, NextMessage
    <3>1. alloc' = alloc /\ \A c \in Cell \ alloc :
            /\ (L'[c] => L[c]) /\ (close'[c] => close[c]) /\ (quit'[c] => quit[c])
            /\ mq'[c] = mq[c] /\ map'[c] = map[c] /\ dying'[c] = dying[c]
            /\ leaked'[c] = leaked[c] /\ ref'[c] = ref[c]
      BY <2>2, <3>0, <3>2 DEF TrashMessage, NextMessage, Unpacked, Grabbed
    <3> QED BY <3>1, FreeFrame
  <2>3. CASE EndTrash(w)
    <3>0. cur[w] \in Cell /\ cur[w] \in alloc
      BY <2>3, ActorType, WorkAllocated DEF EndTrash
    <3>1. alloc' = alloc /\ \A c \in Cell \ alloc :
            /\ (L'[c] => L[c]) /\ (close'[c] => close[c]) /\ (quit'[c] => quit[c])
            /\ mq'[c] = mq[c] /\ map'[c] = map[c] /\ dying'[c] = dying[c]
            /\ leaked'[c] = leaked[c] /\ ref'[c] = ref[c]
      BY <2>3, <3>0 DEF EndTrash, Release
    <3> QED BY <3>1, FreeFrame
  <2>4. ASSUME NEW x \in Cell, Finalize(w, x) PROVE Free'
    <3>0. Actor(w) \in Cell /\ Actor(w) \in alloc
      BY <2>4, ActorType, WorkAllocated DEF Finalize, InLua, Closing
    <3>2. x \in alloc
      BY <2>4, <3>0, WorkAllocated DEF Finalize
    <3>3. \A c \in Cell \ alloc : map'[c] = map[c] /\ dying'[c] = dying[c]
      <4>1. CASE map' = map /\ dying' = [dying EXCEPT ![Actor(w)] = @ \ {x}]
        BY <3>0, <4>1
      <4>2. CASE dying' = dying /\ map' = [map EXCEPT ![Actor(w)] = @ \ {x}]
        BY <3>0, <4>2
      <4> QED BY <2>4, <4>1, <4>2 DEF Finalize
    <3>4. UNCHANGED <<alloc, L, close, quit, mq, leaked>> /\ ref' = [ref EXCEPT ![x] = @ - 1]
      BY <2>4 DEF Finalize, Release
    <3>5. \A c \in Cell \ alloc : ref'[c] = ref[c]
      BY <3>2, <3>4
    <3> QED BY <3>3, <3>4, <3>5, FreeFrame
  <2>5. CASE EndClosing(w)
    <3>1. alloc' = alloc /\ \A c \in Cell \ alloc :
            /\ (L'[c] => L[c]) /\ (close'[c] => close[c]) /\ (quit'[c] => quit[c])
            /\ mq'[c] = mq[c] /\ map'[c] = map[c] /\ dying'[c] = dying[c]
            /\ leaked'[c] = leaked[c] /\ ref'[c] = ref[c]
      BY <2>5 DEF EndClosing
    <3> QED BY <3>1, FreeFrame
  <2>6. CASE EndFailing(w)
    <3>0. Actor(w) \in Cell /\ Actor(w) \in alloc
      BY <2>6, ActorType, WorkAllocated DEF EndFailing, InLua, Closing
    <3>1. alloc' = alloc /\ \A c \in Cell \ alloc :
            /\ (L'[c] => L[c]) /\ (close'[c] => close[c]) /\ (quit'[c] => quit[c])
            /\ mq'[c] = mq[c] /\ map'[c] = map[c] /\ dying'[c] = dying[c]
            /\ leaked'[c] = leaked[c] /\ ref'[c] = ref[c]
      BY <2>6, <3>0 DEF EndFailing
    <3> QED BY <3>1, FreeFrame
  <2>7. CASE Destroy(w)
    <3>1. Actor(w) \in Cell /\ Actor(w) \in alloc /\ ~L[Actor(w)] /\ ref[Actor(w)] = 0 /\ leaked[Actor(w)] = 0
          /\ map[Actor(w)] = {} /\ dying[Actor(w)] = {}
      BY <2>7, Destroyed DEF Destroy
    <3>2. alloc' = alloc \ {Actor(w)} /\ UNCHANGED <<L, ref, map, dying>> /\ leaked' = Dropped(Actor(w))
      BY <2>7 DEF Destroy
    <3>3. quit' = [quit EXCEPT ![Actor(w)] = FALSE] /\ close' = [close EXCEPT ![Actor(w)] = FALSE]
          /\ mq' = [mq EXCEPT ![Actor(w)] = <<>>]
      BY <2>7 DEF Destroy
    <3>4. ASSUME NEW c \in Cell \ alloc' PROVE ~quit'[c] /\ ~close'[c] /\ mq'[c] = <<>>
      BY <3>1, <3>2, <3>3 DEF Free
    <3>5. ASSUME NEW c \in Cell \ alloc' PROVE leaked'[c] = 0
      <4>1. leaked[c] = 0 /\ leaked'[c] = leaked[c] + Cardinality(Slots(mq, Actor(w), c))
        BY <3>1, <3>2 DEF Free, Dropped, Slots
      <4>2. \A i \in DOMAIN mq[Actor(w)] : c \notin mq[Actor(w)][i]
        <5>1. CASE c = Actor(w)
          BY <2>7, <3>1, <5>1, Destroyed DEF Destroy
        <5>2. CASE c \notin alloc
          BY <3>1, <5>2 DEF NoDangling, ToSet
        <5> QED BY <3>2, <5>1, <5>2
      <4>3. Slots(mq, Actor(w), c) = {}
        BY <4>2 DEF Slots
      <4> QED BY <4>1, <4>3, FS_EmptySet
    <3> QED BY <3>1, <3>2, <3>4, <3>5 DEF Free
  <2>8. CASE Decrement(w)
    <3>1. alloc' = alloc /\ \A c \in Cell \ alloc :
            /\ (L'[c] => L[c]) /\ (close'[c] => close[c]) /\ (quit'[c] => quit[c])
            /\ mq'[c] = mq[c] /\ map'[c] = map[c] /\ dying'[c] = dying[c]
            /\ leaked'[c] = leaked[c] /\ ref'[c] = ref[c]
      BY <2>8 DEF Decrement
    <3> QED BY <3>1, FreeFrame
  <2> QED BY <1>2, <2>1, <2>2, <2>3, <2>4, <2>5, <2>6, <2>7, <2>8 DEF Dispose
<1>3. ASSUME NEW w \in Thread, Loading(w) PROVE Free'
  <2>1. CASE EndLoad(w)
    <3>0. new[w] \in alloc /\ system \in alloc
      BY <2>1 DEF EndLoad, Phases, NoDangling
    <3>2. \A c \in Cell \ alloc : ref'[c] = ref[c]
      BY <2>1, <3>0 DEF EndLoad, Grabbed
    <3>3. UNCHANGED <<alloc, L, close, quit, mq, dying, leaked>>
          /\ map' = [map EXCEPT ![system] = @ \union {new[w]}]
      BY <2>1 DEF EndLoad
    <3>4. \A c \in Cell \ alloc : map'[c] = map[c]
      BY <3>0, <3>3
    <3> QED BY <3>2, <3>3, <3>4, FreeFrame
  <2>2. CASE FailLoad(w)
    <3>1. alloc' = alloc /\ \A c \in Cell \ alloc :
            /\ (L'[c] => L[c]) /\ (close'[c] => close[c]) /\ (quit'[c] => quit[c])
            /\ mq'[c] = mq[c] /\ map'[c] = map[c] /\ dying'[c] = dying[c]
            /\ leaked'[c] = leaked[c] /\ ref'[c] = ref[c]
      BY <2>2 DEF FailLoad
    <3> QED BY <3>1, FreeFrame
  <2> QED BY <1>3, <2>1, <2>2 DEF Loading
<1>4. ASSUME NEW w \in Thread, Call(w) PROVE Free'
  <2>1. ASSUME NEW x \in Cell, NEW msg \in Message, Send(w, x, msg) PROVE Free'
    <3>0. Actor(w) \in Cell /\ Actor(w) \in alloc
      BY <2>1, ActorType, WorkAllocated DEF Send, InLua, Closing
    <3>2. x \in alloc /\ msg \subseteq alloc
      BY <2>1, <3>0, WorkAllocated DEF Send
    <3>1. alloc' = alloc /\ \A c \in Cell \ alloc :
            /\ (L'[c] => L[c]) /\ (close'[c] => close[c]) /\ (quit'[c] => quit[c])
            /\ mq'[c] = mq[c] /\ map'[c] = map[c] /\ dying'[c] = dying[c]
            /\ leaked'[c] = leaked[c] /\ ref'[c] = ref[c]
      BY <2>1, <3>0, <3>2 DEF Send, Packed
    <3> QED BY <3>1, FreeFrame
  <2>2. ASSUME NEW x \in Cell, FailToPack(w, x) PROVE Free'
    <3>0. Actor(w) \in Cell /\ Actor(w) \in alloc
      BY <2>2, ActorType, WorkAllocated DEF FailToPack, InLua, Closing
    <3>2. x \in alloc
      BY <2>2, <3>0, WorkAllocated DEF FailToPack
    <3>1. alloc' = alloc /\ \A c \in Cell \ alloc :
            /\ (L'[c] => L[c]) /\ (close'[c] => close[c]) /\ (quit'[c] => quit[c])
            /\ mq'[c] = mq[c] /\ map'[c] = map[c] /\ dying'[c] = dying[c]
            /\ leaked'[c] = leaked[c] /\ ref'[c] = ref[c]
      BY <2>2, <3>0, <3>2 DEF FailToPack, Grabbed
    <3> QED BY <3>1, FreeFrame
  <2>3. ASSUME NEW x \in Cell, Collect(w, x) PROVE Free'
    <3>0. Actor(w) \in Cell /\ Actor(w) \in alloc
      BY <2>3, ActorType, WorkAllocated DEF Collect, InLua, Closing
    <3>2. x \in alloc
      BY <2>3, <3>0, WorkAllocated DEF Collect
    <3>3. \A c \in Cell \ alloc : map'[c] = map[c] /\ dying'[c] = dying[c]
      BY <2>3, <3>0 DEF Collect
    <3>4. UNCHANGED <<alloc, L, close, quit, mq, leaked>>
          /\ (ref' = ref \/ ref' = [ref EXCEPT ![x] = @ - 1])
      BY <2>3 DEF Collect, Release
    <3>5. \A c \in Cell \ alloc : ref'[c] = ref[c]
      BY <3>2, <3>4
    <3> QED BY <3>3, <3>4, <3>5, FreeFrame
  <2>4. ASSUME NEW x \in Cell, Kill(w, x) PROVE Free'
    <3>2. x \in alloc
      BY <2>4, WorkAllocated DEF Kill
    <3>1. alloc' = alloc /\ \A c \in Cell \ alloc :
            /\ (L'[c] => L[c]) /\ (close'[c] => close[c]) /\ (quit'[c] => quit[c])
            /\ mq'[c] = mq[c] /\ map'[c] = map[c] /\ dying'[c] = dying[c]
            /\ leaked'[c] = leaked[c] /\ ref'[c] = ref[c]
      BY <2>4, <3>2 DEF Kill
    <3> QED BY <3>1, FreeFrame
  <2>5. ASSUME NEW n \in Cell, Launch(w, n) PROVE Free'
    <3>1. system \in alloc
      BY <2>5, WorkAllocated, ActorType DEF Launch, InLua
    <3>2. \A c \in Cell \ alloc' :
            /\ c \notin alloc
            /\ (L'[c] => L[c]) /\ (close'[c] => close[c]) /\ (quit'[c] => quit[c])
            /\ mq'[c] = mq[c] /\ map'[c] = map[c] /\ dying'[c] = dying[c]
            /\ leaked'[c] = leaked[c] /\ ref'[c] = ref[c]
      BY <2>5, <3>1 DEF Launch
    <3> QED BY <3>2, FreeFrame
  <2> QED BY <1>4, <2>1, <2>2, <2>3, <2>4, <2>5 DEF Call
<1>5. ASSUME NEW w \in Worker, EndRound(w) PROVE Free'
  <2>1. alloc' = alloc /\ \A c \in Cell \ alloc :
          /\ (L'[c] => L[c]) /\ (close'[c] => close[c]) /\ (quit'[c] => quit[c])
          /\ mq'[c] = mq[c] /\ map'[c] = map[c] /\ dying'[c] = dying[c]
          /\ leaked'[c] = leaked[c] /\ ref'[c] = ref[c]
    BY <1>5 DEF EndRound
  <2> QED BY <2>1, FreeFrame
<1>6. CASE StartThreads
  <2>1. alloc' = alloc /\ \A c \in Cell \ alloc :
          /\ (L'[c] => L[c]) /\ (close'[c] => close[c]) /\ (quit'[c] => quit[c])
          /\ mq'[c] = mq[c] /\ map'[c] = map[c] /\ dying'[c] = dying[c]
          /\ leaked'[c] = leaked[c] /\ ref'[c] = ref[c]
    BY <1>6 DEF StartThreads
  <2> QED BY <2>1, FreeFrame
<1>7. CASE Tick
  <2>1. alloc' = alloc /\ \A c \in Cell \ alloc :
          /\ (L'[c] => L[c]) /\ (close'[c] => close[c]) /\ (quit'[c] => quit[c])
          /\ mq'[c] = mq[c] /\ map'[c] = map[c] /\ dying'[c] = dying[c]
          /\ leaked'[c] = leaked[c] /\ ref'[c] = ref[c]
    BY <1>7 DEF Tick, Phases, Booting, SystemOpen
  <2> QED BY <2>1, FreeFrame
<1>8. CASE Return
  <2>0. system \in alloc
    BY <1>8 DEF Return, Phases, SystemOpen
  <2>1. alloc' = alloc /\ \A c \in Cell \ alloc :
          /\ (L'[c] => L[c]) /\ (close'[c] => close[c]) /\ (quit'[c] => quit[c])
          /\ mq'[c] = mq[c] /\ map'[c] = map[c] /\ dying'[c] = dying[c]
          /\ leaked'[c] = leaked[c] /\ ref'[c] = ref[c]
    BY <1>8, <2>0 DEF Return
  <2> QED BY <2>1, FreeFrame
<1>9. CASE StopTimer \/ Stopped \/ UNCHANGED vars
  <2>1. UNCHANGED <<alloc, L, close, quit, mq, map, dying, leaked, ref>>
    BY <1>9 DEF StopTimer, Stopped, vars
  <2> QED BY <2>1, FreeFrame
<1> QED BY <1>1, <1>2, <1>3, <1>4, <1>5, <1>6, <1>7, <1>8, <1>9 DEF Next

DataAllocated ==
  \A c \in Cell : map[c] \union dying[c] \subseteq alloc /\ ToSet(mq[c]) \subseteq SUBSET alloc
RingAllocated == ToSet(ring) \subseteq alloc
ThreadsAllocated == \A w \in Thread : {cur[w], new[w], zero[w]} \subseteq alloc \union {NoCell}

\* The elements of a longer, and of a shorter, sequence.
LEMMA SetOfAppend ==
  ASSUME NEW S, NEW s \in Seq(S), NEW e \in S
  PROVE  ToSet(Append(s, e)) = ToSet(s) \union {e}
<1> DEFINE t == Append(s, e)
<1>1. PICK k : /\ k \notin DOMAIN s /\ t[k] = e
               /\ DOMAIN t = DOMAIN s \union {k}
               /\ \A i \in DOMAIN s : t[i] = s[i]
  BY SeqAppend
<1> HIDE DEF t
<1>2. ToSet(t) = ToSet(s) \union {e}
  BY <1>1 DEF ToSet
<1> QED BY <1>2 DEF t

\* What is left in a shorter sequence.
LEMMA SetOfTail ==
  ASSUME NEW S, NEW s \in Seq(S), s # <<>>
  PROVE  ToSet(Tail(s)) \subseteq ToSet(s) /\ Head(s) \in ToSet(s)
<1> DEFINE t == Tail(s)
<1>1. /\ 1 \in DOMAIN s /\ Head(s) = s[1]
      /\ \A i \in DOMAIN t : i + 1 \in DOMAIN s /\ t[i] = s[i + 1]
  BY SeqHead
<1> HIDE DEF t
<1>2. ToSet(t) \subseteq ToSet(s) /\ Head(s) \in ToSet(s)
  BY <1>1 DEF ToSet
<1> QED BY <1>2 DEF t

\* What a queue's messages pack is allocated, and so after a push or a pop.
LEMMA QueueSets ==
  ASSUME IInv, NEW c \in Cell
  PROVE  /\ ToSet(mq[c]) \subseteq SUBSET alloc
         /\ mq[c] # <<>> => ToSet(Tail(mq[c])) \subseteq SUBSET alloc /\ Head(mq[c]) \subseteq alloc
         /\ \A msg \in Message : msg \subseteq alloc => ToSet(Append(mq[c], msg)) \subseteq SUBSET alloc
<1>1. mq[c] \in Seq(Message) /\ ToSet(mq[c]) \subseteq SUBSET alloc
  BY DEF IInv, TypeOK, NoDangling
<1>2. ASSUME mq[c] # <<>>
      PROVE  ToSet(Tail(mq[c])) \subseteq SUBSET alloc /\ Head(mq[c]) \subseteq alloc
  <2>1. ToSet(Tail(mq[c])) \subseteq ToSet(mq[c]) /\ Head(mq[c]) \in ToSet(mq[c])
    BY <1>1, <1>2, SetOfTail
  <2> QED BY <1>1, <2>1
<1>3. ASSUME NEW msg \in Message, msg \subseteq alloc
      PROVE  ToSet(Append(mq[c], msg)) \subseteq SUBSET alloc
  <2>1. ToSet(Append(mq[c], msg)) = ToSet(mq[c]) \union {msg}
    BY <1>1, SetOfAppend
  <2> QED BY <1>1, <1>3, <2>1
<1> QED BY <1>1, <1>2, <1>3

\* Nothing new is referred to.
LEMMA DataFrame ==
  ASSUME IInv, alloc \subseteq alloc',
         \A c \in Cell : map'[c] \subseteq map[c] \union alloc',
         \A c \in Cell : dying'[c] \subseteq dying[c] \union alloc',
         \A c \in Cell : mq'[c] = mq[c] \/ ToSet(mq'[c]) \subseteq SUBSET alloc'
  PROVE  DataAllocated'
<1>1. ASSUME NEW c \in Cell
      PROVE  map'[c] \subseteq alloc' /\ dying'[c] \subseteq alloc'
  <2>1. map[c] \subseteq alloc /\ dying[c] \subseteq alloc
    BY DEF IInv, NoDangling
  <2>2. map'[c] \subseteq map[c] \union alloc' /\ dying'[c] \subseteq dying[c] \union alloc'
    OBVIOUS
  <2> QED BY <2>1, <2>2
<1>2. ASSUME NEW c \in Cell
      PROVE  ToSet(mq'[c]) \subseteq SUBSET alloc'
  <2>1. ToSet(mq[c]) \subseteq SUBSET alloc
    BY DEF IInv, NoDangling
  <2>2. ToSet(mq[c]) \subseteq SUBSET alloc'
    BY <2>1
  <2>3. CASE mq'[c] = mq[c]
    BY <2>2, <2>3
  <2>4. CASE ToSet(mq'[c]) \subseteq SUBSET alloc'
    BY <2>4
  <2> QED BY <2>3, <2>4
<1> QED BY <1>1, <1>2 DEF DataAllocated

\* No step frees a cell that a Lua state or a message refers to.
LEMMA DataStep ==
  ASSUME IInv, [Next]_vars
  PROVE  DataAllocated'
<1> USE ThreadAssumption, CellAssumption
<1> USE DEF IInv, TypeOK, Thread, At, Goto, threads, cells
<1>1. ASSUME NEW w \in Thread, Dispatch(w) PROVE DataAllocated'
  <2>1. CASE Take(w)
    <3>1. UNCHANGED <<alloc, map, dying, mq>>
      BY <2>1 DEF Take
    <3> QED BY <3>1, DataFrame
  <2>2. CASE DispatchQuit(w)
    <3>1. UNCHANGED <<alloc, map, dying, mq>>
      BY <2>2 DEF DispatchQuit
    <3> QED BY <3>1, DataFrame
  <2>3. CASE DispatchClose(w)
    <3>1. UNCHANGED <<alloc, map, dying, mq>>
      BY <2>3 DEF DispatchClose
    <3> QED BY <3>1, DataFrame
  <2>4. CASE DispatchEmpty(w)
    <3>1. cur[w] \in Cell
      BY <2>4, ActorType DEF DispatchEmpty
    <3>2. UNCHANGED <<alloc, dying, map>>
          /\ (mq' = mq \/ (mq[cur[w]] # <<>> /\ mq' = [mq EXCEPT ![cur[w]] = Tail(@)]))
      BY <2>4 DEF DispatchEmpty
    <3>3. \A c \in Cell : mq'[c] = mq[c] \/ ToSet(mq'[c]) \subseteq SUBSET alloc'
      <4>1. CASE mq' = mq
        BY <4>1
      <4>2. CASE mq[cur[w]] # <<>> /\ mq' = [mq EXCEPT ![cur[w]] = Tail(@)]
        <5>1. ToSet(Tail(mq[cur[w]])) \subseteq SUBSET alloc
          BY <3>1, <4>2, QueueSets
        <5> QED BY <3>1, <3>2, <4>2, <5>1
      <4> QED BY <3>2, <4>1, <4>2
    <3> QED BY <3>2, <3>3, DataFrame
  <2>5. CASE DispatchMessage(w)
    <3>1. cur[w] \in Cell
      BY <2>5, ActorType DEF DispatchMessage
    <3>2. alloc' = alloc /\ dying' = dying /\ mq[cur[w]] # <<>> /\ mq' = [mq EXCEPT ![cur[w]] = Tail(@)]
          /\ map' = [map EXCEPT ![cur[w]] = @ \union Head(mq[cur[w]])]
      BY <2>5 DEF DispatchMessage, NextMessage
    <3>3. ToSet(Tail(mq[cur[w]])) \subseteq SUBSET alloc /\ Head(mq[cur[w]]) \subseteq alloc
      BY <3>1, <3>2, QueueSets
    <3>4. \A c \in Cell : mq'[c] = mq[c] \/ ToSet(mq'[c]) \subseteq SUBSET alloc'
      BY <3>1, <3>2, <3>3
    <3>5. \A c \in Cell : map'[c] \subseteq map[c] \union alloc'
      BY <3>1, <3>2, <3>3
    <3> QED BY <3>2, <3>4, <3>5, DataFrame
  <2>6. CASE EndMessage(w)
    <3>1. UNCHANGED <<alloc, map, dying, mq>>
      BY <2>6 DEF EndMessage, Release
    <3> QED BY <3>1, DataFrame
  <2>7. CASE PushBack(w)
    <3>1. UNCHANGED <<alloc, map, dying, mq>>
      BY <2>7 DEF PushBack
    <3> QED BY <3>1, DataFrame
  <2> QED BY <1>1, <2>1, <2>2, <2>3, <2>4, <2>5, <2>6, <2>7 DEF Dispatch
<1>2. ASSUME NEW w \in Thread, Dispose(w) PROVE DataAllocated'
  <2>1. CASE SetQuit(w)
    <3>1. UNCHANGED <<alloc, map, dying, mq>>
      BY <2>1 DEF SetQuit
    <3> QED BY <3>1, DataFrame
  <2>2. CASE TrashMessage(w)
    <3>1. cur[w] \in Cell
      BY <2>2, ActorType DEF TrashMessage
    <3>2. alloc' = alloc /\ dying' = dying /\ mq[cur[w]] # <<>> /\ mq' = [mq EXCEPT ![cur[w]] = Tail(@)]
          /\ map' = [map EXCEPT ![cur[w]] = @ \union Head(mq[cur[w]])]
      BY <2>2 DEF TrashMessage, NextMessage
    <3>3. ToSet(Tail(mq[cur[w]])) \subseteq SUBSET alloc /\ Head(mq[cur[w]]) \subseteq alloc
      BY <3>1, <3>2, QueueSets
    <3>4. \A c \in Cell : mq'[c] = mq[c] \/ ToSet(mq'[c]) \subseteq SUBSET alloc'
      BY <3>1, <3>2, <3>3
    <3>5. \A c \in Cell : map'[c] \subseteq map[c] \union alloc'
      BY <3>1, <3>2, <3>3
    <3> QED BY <3>2, <3>4, <3>5, DataFrame
  <2>3. CASE EndTrash(w)
    <3>1. UNCHANGED <<alloc, map, dying, mq>>
      BY <2>3 DEF EndTrash, Release
    <3> QED BY <3>1, DataFrame
  <2>4. ASSUME NEW x \in Cell, Finalize(w, x) PROVE DataAllocated'
    <3>2. Actor(w) \in Cell
      BY <2>4, ActorType DEF Finalize, InLua, Closing
    <3>3. \A c \in Cell : map'[c] \subseteq map[c] /\ dying'[c] \subseteq dying[c]
      <4>1. CASE map' = map /\ dying' = [dying EXCEPT ![Actor(w)] = @ \ {x}]
        BY <3>2, <4>1
      <4>2. CASE dying' = dying /\ map' = [map EXCEPT ![Actor(w)] = @ \ {x}]
        BY <3>2, <4>2
      <4> QED BY <2>4, <4>1, <4>2 DEF Finalize
    <3>4. UNCHANGED <<alloc, mq>>
      BY <2>4 DEF Finalize
    <3> QED BY <3>3, <3>4, DataFrame
  <2>5. CASE EndClosing(w)
    <3>1. UNCHANGED <<alloc, map, dying, mq>>
      BY <2>5 DEF EndClosing
    <3> QED BY <3>1, DataFrame
  <2>6. CASE EndFailing(w)
    <3>1. UNCHANGED <<alloc, map, dying, mq>>
      BY <2>6 DEF EndFailing
    <3> QED BY <3>1, DataFrame
  <2>7. CASE Destroy(w)
    <3>0. /\ Actor(w) \in Cell
          /\ \A d \in Cell : Actor(w) \notin map[d] /\ Actor(w) \notin dying[d]
          /\ \A d \in Cell : \A i \in DOMAIN mq[d] : Actor(w) \notin mq[d][i]
      BY <2>7, Destroyed DEF Destroy
    <3>1. alloc' = alloc \ {Actor(w)} /\ UNCHANGED <<map, dying>>
          /\ mq' = [mq EXCEPT ![Actor(w)] = <<>>]
      BY <2>7 DEF Destroy
    <3>2. \A d \in Cell : ToSet(mq'[d]) \subseteq ToSet(mq[d])
      <4> SUFFICES ASSUME NEW d \in Cell PROVE ToSet(mq'[d]) \subseteq ToSet(mq[d])
        OBVIOUS
      <4>1. mq'[d] = mq[d] \/ (mq'[d] = <<>> /\ DOMAIN <<>> = {})
        BY <3>0, <3>1
      <4> QED BY <4>1 DEF ToSet
    <3>3. ASSUME NEW d \in Cell
          PROVE  map'[d] \union dying'[d] \subseteq alloc' /\ ToSet(mq'[d]) \subseteq SUBSET alloc'
      <4>1. map[d] \union dying[d] \subseteq alloc /\ ToSet(mq[d]) \subseteq SUBSET alloc
        BY DEF NoDangling
      <4>2. \A m \in ToSet(mq[d]) : Actor(w) \notin m
        BY <3>0 DEF ToSet
      <4> QED BY <3>0, <3>1, <3>2, <4>1, <4>2
    <3> QED BY <3>3 DEF DataAllocated
  <2>8. CASE Decrement(w)
    <3>1. UNCHANGED <<alloc, map, dying, mq>>
      BY <2>8 DEF Decrement
    <3> QED BY <3>1, DataFrame
  <2> QED BY <1>2, <2>1, <2>2, <2>3, <2>4, <2>5, <2>6, <2>7, <2>8 DEF Dispose
<1>3. ASSUME NEW w \in Thread, Loading(w) PROVE DataAllocated'
  <2>1. CASE EndLoad(w)
    <3>1. new[w] \in alloc
      BY <2>1 DEF EndLoad, Phases, NoDangling
    <3>2. UNCHANGED <<alloc, dying, mq>> /\ map' = [map EXCEPT ![system] = @ \union {new[w]}]
      BY <2>1 DEF EndLoad
    <3>3. \A c \in Cell : map'[c] \subseteq map[c] \union alloc'
      BY <3>1, <3>2
    <3> QED BY <3>2, <3>3, DataFrame
  <2>2. CASE FailLoad(w)
    <3>1. UNCHANGED <<alloc, map, dying, mq>>
      BY <2>2 DEF FailLoad
    <3> QED BY <3>1, DataFrame
  <2> QED BY <1>3, <2>1, <2>2 DEF Loading
<1>4. ASSUME NEW w \in Thread, Call(w) PROVE DataAllocated'
  <2>1. ASSUME NEW x \in Cell, NEW msg \in Message, Send(w, x, msg) PROVE DataAllocated'
    <3>1. Actor(w) \in Cell
      BY <2>1, ActorType DEF Send, InLua
    <3>2. msg \subseteq alloc
      BY <2>1, <3>1 DEF Send, NoDangling
    <3>3. UNCHANGED <<alloc, map, dying>> /\ mq' = [mq EXCEPT ![x] = Append(@, msg)]
      BY <2>1 DEF Send
    <3>4. ToSet(Append(mq[x], msg)) \subseteq SUBSET alloc
      BY <3>2, QueueSets
    <3>5. \A c \in Cell : mq'[c] = mq[c] \/ ToSet(mq'[c]) \subseteq SUBSET alloc'
      BY <3>3, <3>4
    <3> QED BY <3>3, <3>5, DataFrame
  <2>2. ASSUME NEW x \in Cell, FailToPack(w, x) PROVE DataAllocated'
    <3>1. UNCHANGED <<alloc, map, dying, mq>>
      BY <2>2 DEF FailToPack
    <3> QED BY <3>1, DataFrame
  <2>3. ASSUME NEW x \in Cell, Collect(w, x) PROVE DataAllocated'
    <3>2. Actor(w) \in Cell
      BY <2>3, ActorType DEF Collect, InLua
    <3>3. x \in alloc
      BY <2>3, <3>2 DEF Collect, NoDangling
    <3>4. UNCHANGED <<alloc, mq>> /\ map' = [map EXCEPT ![Actor(w)] = @ \ {x}]
          /\ (dying' = dying \/ dying' = [dying EXCEPT ![Actor(w)] = @ \union {x}])
      BY <2>3 DEF Collect
    <3>5. \A c \in Cell : map'[c] \subseteq map[c]
      BY <3>2, <3>4
    <3>6. \A c \in Cell : dying'[c] \subseteq dying[c] \union alloc'
      <4>1. CASE dying' = dying
        BY <4>1
      <4>2. CASE dying' = [dying EXCEPT ![Actor(w)] = @ \union {x}]
        BY <3>2, <3>3, <3>4, <4>2
      <4> QED BY <3>4, <4>1, <4>2
    <3> QED BY <3>4, <3>5, <3>6, DataFrame
  <2>4. ASSUME NEW x \in Cell, Kill(w, x) PROVE DataAllocated'
    <3>1. UNCHANGED <<alloc, map, dying, mq>>
      BY <2>4 DEF Kill
    <3> QED BY <3>1, DataFrame
  <2>5. ASSUME NEW n \in Cell, Launch(w, n) PROVE DataAllocated'
    <3>1. system \in alloc
      BY <2>5, ActorType, ActorAllocated DEF Launch, InLua
    <3>2. alloc' = alloc \union {n} /\ UNCHANGED <<dying, mq>> /\ map' = [map EXCEPT ![n] = {n, system}]
      BY <2>5 DEF Launch
    <3>3. \A c \in Cell : map'[c] \subseteq map[c] \union alloc'
      BY <3>1, <3>2
    <3> QED BY <3>2, <3>3, DataFrame
  <2> QED BY <1>4, <2>1, <2>2, <2>3, <2>4, <2>5 DEF Call
<1>5. ASSUME NEW w \in Worker, EndRound(w) PROVE DataAllocated'
  <2>1. UNCHANGED <<alloc, map, dying, mq>>
    BY <1>5 DEF EndRound
  <2> QED BY <2>1, DataFrame
<1>6. CASE StartThreads
  <2>1. UNCHANGED <<alloc, map, dying, mq>>
    BY <1>6 DEF StartThreads
  <2> QED BY <2>1, DataFrame
<1>7. CASE Tick
  <2>3. UNCHANGED <<alloc, map, dying>> /\ mq' = [mq EXCEPT ![system] = Append(@, {})]
    BY <1>7 DEF Tick
  <2>4. ToSet(Append(mq[system], {})) \subseteq SUBSET alloc
    BY QueueSets
  <2>5. \A c \in Cell : mq'[c] = mq[c] \/ ToSet(mq'[c]) \subseteq SUBSET alloc'
    BY <2>3, <2>4
  <2> QED BY <2>3, <2>5, DataFrame
<1>8. CASE Return
  <2>1. UNCHANGED <<alloc, map, dying, mq>>
    BY <1>8 DEF Return
  <2> QED BY <2>1, DataFrame
<1>9. CASE StopTimer \/ Stopped \/ UNCHANGED vars
  <2>1. UNCHANGED <<alloc, map, dying, mq>>
    BY <1>9 DEF StopTimer, Stopped, vars
  <2> QED BY <2>1, DataFrame
<1> QED BY <1>1, <1>2, <1>3, <1>4, <1>5, <1>6, <1>7, <1>8, <1>9 DEF Next

\* No step frees a cell that is in the ring.
LEMMA RingStep ==
  ASSUME IInv, [Next]_vars
  PROVE  RingAllocated'
<1> USE ThreadAssumption, CellAssumption
<1> USE DEF IInv, TypeOK, Thread, At, Goto, threads, cells, RingAllocated
<1>1. ASSUME NEW w \in Thread, Dispatch(w) PROVE RingAllocated'
  <2>1. CASE Take(w)
    <3>1. alloc' = alloc /\ ring # <<>> /\ ring' = Tail(ring)
      BY <2>1 DEF Take
    <3>2. ToSet(Tail(ring)) \subseteq ToSet(ring)
      BY <3>1, SetOfTail
    <3> QED BY <3>1, <3>2 DEF NoDangling
  <2>2. CASE DispatchQuit(w)
    <3>1. ring' = ring /\ alloc \subseteq alloc'
      BY <2>2 DEF DispatchQuit
    <3> QED BY <3>1 DEF NoDangling
  <2>3. CASE DispatchClose(w)
    <3>1. ring' = ring /\ alloc \subseteq alloc'
      BY <2>3 DEF DispatchClose
    <3> QED BY <3>1 DEF NoDangling
  <2>4. CASE DispatchEmpty(w)
    <3>1. ring' = ring /\ alloc \subseteq alloc'
      BY <2>4 DEF DispatchEmpty
    <3> QED BY <3>1 DEF NoDangling
  <2>5. CASE DispatchMessage(w)
    <3>1. ring' = ring /\ alloc \subseteq alloc'
      BY <2>5 DEF DispatchMessage
    <3> QED BY <3>1 DEF NoDangling
  <2>6. CASE EndMessage(w)
    <3>1. ring' = ring /\ alloc \subseteq alloc'
      BY <2>6 DEF EndMessage
    <3> QED BY <3>1 DEF NoDangling
  <2>7. CASE PushBack(w)
    <3>1. cur[w] \in Cell /\ cur[w] \in alloc
      BY <2>7, ActorType, WorkAllocated DEF PushBack
    <3>2. alloc' = alloc /\ ring' = Append(ring, cur[w])
      BY <2>7 DEF PushBack
    <3>3. ToSet(Append(ring, cur[w])) = ToSet(ring) \union {cur[w]}
      BY <3>1, SetOfAppend
    <3> QED BY <3>1, <3>2, <3>3 DEF NoDangling
  <2> QED BY <1>1, <2>1, <2>2, <2>3, <2>4, <2>5, <2>6, <2>7 DEF Dispatch
<1>2. ASSUME NEW w \in Thread, Dispose(w) PROVE RingAllocated'
  <2>1. CASE SetQuit(w)
    <3>1. ring' = ring /\ alloc \subseteq alloc'
      BY <2>1 DEF SetQuit
    <3> QED BY <3>1 DEF NoDangling
  <2>2. CASE TrashMessage(w)
    <3>1. ring' = ring /\ alloc \subseteq alloc'
      BY <2>2 DEF TrashMessage
    <3> QED BY <3>1 DEF NoDangling
  <2>3. CASE EndTrash(w)
    <3>1. ring' = ring /\ alloc \subseteq alloc'
      BY <2>3 DEF EndTrash
    <3> QED BY <3>1 DEF NoDangling
  <2>4. ASSUME NEW x \in Cell, Finalize(w, x) PROVE RingAllocated'
    <3>1. ring' = ring /\ alloc \subseteq alloc'
      BY <2>4 DEF Finalize
    <3> QED BY <3>1 DEF NoDangling
  <2>5. CASE EndClosing(w)
    <3>1. ring' = ring /\ alloc \subseteq alloc'
      BY <2>5 DEF EndClosing
    <3> QED BY <3>1 DEF NoDangling
  <2>6. CASE EndFailing(w)
    <3>1. ring' = ring /\ alloc \subseteq alloc'
      BY <2>6 DEF EndFailing
    <3> QED BY <3>1 DEF NoDangling
  <2>7. CASE Destroy(w)
    <3>1. \A i \in DOMAIN ring : ring[i] # Actor(w)
      BY <2>7, Destroyed DEF Destroy
    <3>2. ring' = ring /\ alloc' = alloc \ {Actor(w)}
      BY <2>7 DEF Destroy
    <3>3. Actor(w) \notin ToSet(ring)
      BY <3>1 DEF ToSet
    <3> QED BY <3>2, <3>3 DEF NoDangling
  <2>8. CASE Decrement(w)
    <3>1. ring' = ring /\ alloc \subseteq alloc'
      BY <2>8 DEF Decrement
    <3> QED BY <3>1 DEF NoDangling
  <2> QED BY <1>2, <2>1, <2>2, <2>3, <2>4, <2>5, <2>6, <2>7, <2>8 DEF Dispose
<1>3. ASSUME NEW w \in Thread, Loading(w) PROVE RingAllocated'
  <2>1. CASE EndLoad(w)
    <3>1. new[w] \in Cell /\ new[w] \in alloc
      BY <2>1 DEF EndLoad, Phases, NoDangling
    <3>2. alloc' = alloc /\ ring' = Append(ring, new[w])
      BY <2>1 DEF EndLoad
    <3>3. ToSet(Append(ring, new[w])) = ToSet(ring) \union {new[w]}
      BY <3>1, SetOfAppend
    <3> QED BY <3>1, <3>2, <3>3 DEF NoDangling
  <2>2. CASE FailLoad(w)
    <3>1. ring' = ring /\ alloc \subseteq alloc'
      BY <2>2 DEF FailLoad
    <3> QED BY <3>1 DEF NoDangling
  <2> QED BY <1>3, <2>1, <2>2 DEF Loading
<1>4. ASSUME NEW w \in Thread, Call(w) PROVE RingAllocated'
  <2>1. ASSUME NEW x \in Cell, NEW msg \in Message, Send(w, x, msg) PROVE RingAllocated'
    <3>1. ring' = ring /\ alloc \subseteq alloc'
      BY <2>1 DEF Send
    <3> QED BY <3>1 DEF NoDangling
  <2>2. ASSUME NEW x \in Cell, FailToPack(w, x) PROVE RingAllocated'
    <3>1. ring' = ring /\ alloc \subseteq alloc'
      BY <2>2 DEF FailToPack
    <3> QED BY <3>1 DEF NoDangling
  <2>3. ASSUME NEW x \in Cell, Collect(w, x) PROVE RingAllocated'
    <3>1. ring' = ring /\ alloc \subseteq alloc'
      BY <2>3 DEF Collect
    <3> QED BY <3>1 DEF NoDangling
  <2>4. ASSUME NEW x \in Cell, Kill(w, x) PROVE RingAllocated'
    <3>1. ring' = ring /\ alloc \subseteq alloc'
      BY <2>4 DEF Kill
    <3> QED BY <3>1 DEF NoDangling
  <2>5. ASSUME NEW n \in Cell, Launch(w, n) PROVE RingAllocated'
    <3>1. ring' = ring /\ alloc \subseteq alloc'
      BY <2>5 DEF Launch
    <3> QED BY <3>1 DEF NoDangling
  <2> QED BY <1>4, <2>1, <2>2, <2>3, <2>4, <2>5 DEF Call
<1>5. ASSUME NEW w \in Worker, EndRound(w) PROVE RingAllocated'
  <2>1. ring' = ring /\ alloc \subseteq alloc'
    BY <1>5 DEF EndRound
  <2> QED BY <2>1 DEF NoDangling
<1>6. CASE StartThreads
  <2>1. system \in Cell /\ system \in alloc
    BY <1>6 DEF StartThreads, Phases, Booting, SystemOpen
  <2>2. alloc' = alloc /\ ring' = Append(ring, system)
    BY <1>6 DEF StartThreads
  <2>3. ToSet(Append(ring, system)) = ToSet(ring) \union {system}
    BY <2>1, SetOfAppend
  <2> QED BY <2>1, <2>2, <2>3 DEF NoDangling
<1>7. CASE Tick
  <2>1. ring' = ring /\ alloc \subseteq alloc'
    BY <1>7 DEF Tick
  <2> QED BY <2>1 DEF NoDangling
<1>8. CASE Return
  <2>1. ring' = ring /\ alloc \subseteq alloc'
    BY <1>8 DEF Return
  <2> QED BY <2>1 DEF NoDangling
<1>9. CASE StopTimer \/ Stopped \/ UNCHANGED vars
  <2>1. UNCHANGED <<alloc, ring>>
    BY <1>9 DEF StopTimer, Stopped, vars
  <2> QED BY <2>1 DEF NoDangling
<1> QED BY <1>1, <1>2, <1>3, <1>4, <1>5, <1>6, <1>7, <1>8, <1>9 DEF Next

\* No step frees a cell that another thread has.
LEMMA ThreadsStep ==
  ASSUME IInv, [Next]_vars
  PROVE  ThreadsAllocated'
<1> USE ThreadAssumption, CellAssumption
<1> USE DEF IInv, TypeOK, Thread, At, Goto, threads, cells, NoDangling, ThreadsAllocated
<1>1. ASSUME NEW w \in Thread, Dispatch(w) PROVE ThreadsAllocated'
  <2>1. CASE Take(w)
    <3>1. Head(ring) \in alloc
      <4>1. ring # <<>>
        BY <2>1 DEF Take
      <4>2. Head(ring) \in ToSet(ring)
        BY <4>1, SetOfTail
      <4> QED BY <4>2
    <3> QED BY <2>1, <3>1 DEF Take
  <2>2. CASE DispatchQuit(w)
    BY <2>2 DEF DispatchQuit
  <2>3. CASE DispatchClose(w)
    BY <2>3 DEF DispatchClose
  <2>4. CASE DispatchEmpty(w)
    BY <2>4 DEF DispatchEmpty
  <2>5. CASE DispatchMessage(w)
    BY <2>5 DEF DispatchMessage
  <2>6. CASE EndMessage(w)
    <3>1. cur[w] \in alloc
      BY <2>6, ActorType, WorkAllocated DEF EndMessage
    <3> QED BY <2>6, <3>1 DEF EndMessage, Release
  <2>7. CASE PushBack(w)
    BY <2>7 DEF PushBack
  <2> QED BY <1>1, <2>1, <2>2, <2>3, <2>4, <2>5, <2>6, <2>7 DEF Dispatch
<1>2. ASSUME NEW w \in Thread, Dispose(w) PROVE ThreadsAllocated'
  <2>1. CASE SetQuit(w)
    BY <2>1 DEF SetQuit
  <2>2. CASE TrashMessage(w)
    BY <2>2 DEF TrashMessage
  <2>3. CASE EndTrash(w)
    <3>1. cur[w] \in alloc
      BY <2>3, ActorType, WorkAllocated DEF EndTrash
    <3> QED BY <2>3, <3>1 DEF EndTrash, Release
  <2>4. ASSUME NEW x \in Cell, Finalize(w, x) PROVE ThreadsAllocated'
    <3>1. Actor(w) \in Cell
      BY <2>4, ActorType DEF Finalize, InLua, Closing
    <3>2. x \in alloc
      BY <2>4, <3>1 DEF Finalize
    <3>3. alloc' = alloc /\ cur' = cur /\ new' = new
          /\ \E z \in {x, NoCell, zero[w]} : zero' = [zero EXCEPT ![w] = z]
      BY <2>4 DEF Finalize, Release
    <3> QED BY <3>2, <3>3
  <2>5. CASE EndClosing(w)
    BY <2>5 DEF EndClosing
  <2>6. CASE EndFailing(w)
    BY <2>6 DEF EndFailing
  <2>7. CASE Destroy(w)
    <3>1. /\ Actor(w) \in Cell
          /\ \A v \in Thread : zero[v] # Actor(w)
          /\ \A v \in Thread : v # w => cur[v] # Actor(w) /\ new[v] # Actor(w)
          /\ new[w] # NoCell => cur[w] # Actor(w)
      BY <2>7, Destroyed DEF Destroy
    <3>2. alloc' = alloc \ {Actor(w)} /\ zero' = zero /\ new' = [new EXCEPT ![w] = NoCell]
      BY <2>7 DEF Destroy
    <3>3. CASE new[w] # NoCell /\ cur' = cur
      BY <3>1, <3>2, <3>3
    <3>4. CASE new[w] = NoCell /\ cur' = [cur EXCEPT ![w] = NoCell]
      BY <3>1, <3>2, <3>4
    <3> QED BY <2>7, <3>3, <3>4 DEF Destroy
  <2>8. CASE Decrement(w)
    BY <2>8 DEF Decrement
  <2> QED BY <1>2, <2>1, <2>2, <2>3, <2>4, <2>5, <2>6, <2>7, <2>8 DEF Dispose
<1>3. ASSUME NEW w \in Thread, Loading(w) PROVE ThreadsAllocated'
  <2>1. CASE EndLoad(w)
    BY <2>1 DEF EndLoad
  <2>2. CASE FailLoad(w)
    BY <2>2 DEF FailLoad
  <2> QED BY <1>3, <2>1, <2>2 DEF Loading
<1>4. ASSUME NEW w \in Thread, Call(w) PROVE ThreadsAllocated'
  <2>1. ASSUME NEW x \in Cell, NEW msg \in Message, Send(w, x, msg) PROVE ThreadsAllocated'
    BY <2>1 DEF Send
  <2>2. ASSUME NEW x \in Cell, FailToPack(w, x) PROVE ThreadsAllocated'
    BY <2>2 DEF FailToPack
  <2>3. ASSUME NEW x \in Cell, Collect(w, x) PROVE ThreadsAllocated'
    <3>1. Actor(w) \in Cell
      BY <2>3, ActorType DEF Collect, InLua, Closing
    <3>2. x \in alloc
      BY <2>3, <3>1 DEF Collect
    <3>3. alloc' = alloc /\ cur' = cur /\ new' = new
          /\ \E z \in {x, NoCell, zero[w]} : zero' = [zero EXCEPT ![w] = z]
      BY <2>3 DEF Collect, Release
    <3> QED BY <3>2, <3>3
  <2>4. ASSUME NEW x \in Cell, Kill(w, x) PROVE ThreadsAllocated'
    BY <2>4 DEF Kill
  <2>5. ASSUME NEW n \in Cell, Launch(w, n) PROVE ThreadsAllocated'
    BY <2>5 DEF Launch
  <2> QED BY <1>4, <2>1, <2>2, <2>3, <2>4, <2>5 DEF Call
<1>5. ASSUME NEW w \in Worker, EndRound(w) PROVE ThreadsAllocated'
  BY <1>5 DEF EndRound
<1>6. CASE StartThreads
  BY <1>6 DEF StartThreads
<1>7. CASE Tick
  BY <1>7 DEF Tick
<1>8. CASE Return
  BY <1>8 DEF Return
<1>9. CASE StopTimer \/ Stopped \/ UNCHANGED vars
  BY <1>9 DEF StopTimer, Stopped, vars
<1> QED BY <1>1, <1>2, <1>3, <1>4, <1>5, <1>6, <1>7, <1>8, <1>9 DEF Next

-----------------------------------------------------------------------------
(* Counts of zero                                                          *)

Zeroes ==
  /\ \A w \in Thread : zero[w] # NoCell => ref[zero[w]] = 0 /\ ~quit[zero[w]]
  /\ \A v, w \in Thread : zero[v] = zero[w] /\ zero[v] # NoCell => v = w
  /\ \A c \in Cell : quit[c] => ref[c] = 0
  /\ \A c \in alloc : ref[c] = 0 => quit[c] \/ \E w \in Thread : zero[w] = c
Destroying == \A w \in Thread : pc[w] = "destroy" =>
                ~L[Actor(w)] /\ (FailedToLoad(w) \/ quit[Actor(w)])

\* A cell that a Lua state has a userdata for and that a message in its queue packs
\* counts twice.
LEMMA ReferencedTwice ==
  ASSUME IInv, NEW c \in Cell, NEW d \in Cell, NEW i \in DOMAIN mq[d],
         c \in map[d], c \in mq[d][i]
  PROVE  ref[c] > 1
<1>0. mq \in [Cell -> Seq(Message)]
  BY DEF IInv, TypeOK
<1> DEFINE U == Cardinality(Holders(map, c))
           D == Cardinality(Holders(dying, c))
           P == Cardinality(Places(mq, c))
           R == Cardinality(Runs(c))
<1>1. /\ U \in Nat /\ D \in Nat /\ P \in Nat /\ R \in Nat
      /\ ref[c] \in Nat /\ leaked[c] \in Nat /\ ref[c] = U + D + P + R + leaked[c]
  BY Accounts
<1>2. U # 0
  <2>1. d \in Holders(map, c)
    BY DEF Holders
  <2> QED BY <2>1, HoldersFinite, FS_EmptySet
<1>3. P # 0
  <2>1. <<d, i>> \in Places(mq, c)
    BY <1>0, PlacesAre
  <2> QED BY <1>0, <2>1, PlacesFinite, FS_EmptySet
<1> HIDE DEF U, D, P, R
<1> QED BY <1>1, <1>2, <1>3

\* No count changes.
LEMMA ZeroesSame ==
  ASSUME IInv, UNCHANGED <<alloc, ref, quit, zero>>
  PROVE  Zeroes'
BY DEF IInv, Unreferenced, Zeroes

\* Thread w changes counts: none of zero, and when it takes one to zero it keeps the
\* cell in mind.
LEMMA ZeroesFrame ==
  ASSUME IInv, NEW w \in Thread, alloc' = alloc, quit' = quit, zero[w] = NoCell,
         \A v \in Thread \ {w} : zero'[v] = zero[v],
         \A c \in alloc : ref[c] = 0 => ref'[c] = 0,
         \A c \in alloc : ref'[c] = 0 => ref[c] = 0 \/ zero'[w] = c,
         zero'[w] # NoCell => zero'[w] \in Cell /\ ref[zero'[w]] # 0 /\ ref'[zero'[w]] = 0
  PROVE  Zeroes'
<1>1. \A v \in Thread : zero[v] # NoCell => zero[v] \in alloc /\ zero[v] \in Cell
  BY DEF IInv, NoDangling, TypeOK
<1>2. \A c \in Cell : quit[c] => c \in alloc
  BY DEF IInv, Free
<1>3. \A v \in Thread : zero'[v] # NoCell => ref'[zero'[v]] = 0 /\ ~quit'[zero'[v]]
  <2>1. zero'[w] # NoCell => ~quit[zero'[w]]
    BY DEF IInv, Unreferenced
  <2>2. ASSUME NEW v \in Thread \ {w}, zero'[v] # NoCell
        PROVE  ref'[zero'[v]] = 0 /\ ~quit'[zero'[v]]
    <3>1. ref[zero[v]] = 0 /\ ~quit[zero[v]] /\ zero[v] \in alloc /\ zero'[v] = zero[v]
      BY <1>1, <2>2 DEF IInv, Unreferenced
    <3> QED BY <3>1
  <2> QED BY <2>1, <2>2
<1>4. \A u, v \in Thread : zero'[u] = zero'[v] /\ zero'[u] # NoCell => u = v
  BY <1>1 DEF IInv, Unreferenced
<1>5. \A c \in Cell : quit'[c] => ref'[c] = 0
  BY <1>2 DEF IInv, Unreferenced
<1>6. ASSUME NEW c \in alloc', ref'[c] = 0
      PROVE  quit'[c] \/ \E v \in Thread : zero'[v] = c
  <2>1. c \in alloc /\ c # NoCell
    BY CellAssumption DEF IInv, TypeOK
  <2>2. CASE zero'[w] = c
    BY <2>2
  <2>3. CASE ref[c] = 0
    <3>1. quit[c] \/ \E v \in Thread : zero[v] = c
      BY <2>1, <2>3 DEF IInv, Unreferenced
    <3>2. ASSUME NEW v \in Thread, zero[v] = c
          PROVE  zero'[v] = c
      BY <2>1, <3>2
    <3> QED BY <3>1, <3>2
  <2> QED BY <1>6, <2>1, <2>2, <2>3
<1> QED BY <1>3, <1>4, <1>5, <1>6 DEF Zeroes

\* A count that is not zero goes up.
LEMMA ZeroesGrab ==
  ASSUME IInv, NEW w \in Thread, UNCHANGED <<alloc, quit, zero>>, zero[w] = NoCell,
         \A c \in alloc : ref[c] = 0 => ref'[c] = 0,
         \A c \in alloc : ref[c] # 0 => ref'[c] # 0
  PROVE  Zeroes'
BY ZeroesFrame

\* Thread w gives one reference back.
LEMMA ZeroesRelease ==
  ASSUME IInv, NEW w \in Thread, UNCHANGED <<alloc, quit>>, zero[w] = NoCell,
         NEW x \in Cell, Release(w, x), ref[x] # 0
  PROVE  Zeroes'
<1>1. x \in alloc /\ alloc \subseteq Cell
  BY DEF IInv, Free, TypeOK
<1>2. ref' = [ref EXCEPT ![x] = @ - 1] /\ zero' = [zero EXCEPT ![w] = IF ref[x] = 1 THEN x ELSE NoCell]
      /\ ref \in [Cell -> Nat] /\ zero \in [Thread -> Cell \union {NoCell}]
  BY DEF Release, IInv, TypeOK
<1>3. ref'[x] = ref[x] - 1 /\ ref[x] \in Nat /\ \A c \in Cell : c # x => ref'[c] = ref[c]
  BY <1>2
<1>4. (\A v \in Thread \ {w} : zero'[v] = zero[v])
      /\ zero'[w] = IF ref[x] = 1 THEN x ELSE NoCell
  BY <1>2
<1>5. \A c \in alloc : ref[c] = 0 => ref'[c] = 0
  BY <1>1, <1>3
<1>6. ref'[x] = 0 => ref[x] = 1
  BY <1>3
<1>7. \A c \in alloc : ref'[c] = 0 => ref[c] = 0 \/ zero'[w] = c
  BY <1>1, <1>3, <1>4, <1>6
<1>8. zero'[w] # NoCell => zero'[w] \in Cell /\ ref[zero'[w]] # 0 /\ ref'[zero'[w]] = 0
  BY <1>3, <1>4
<1> QED BY <1>4, <1>5, <1>7, <1>8, ZeroesFrame

\* A count that is zero stays zero, and who takes one to zero keeps the cell in mind.
LEMMA ZeroesStep ==
  ASSUME IInv, [Next]_vars
  PROVE  Zeroes'
<1> USE ThreadAssumption, CellAssumption
<1> USE DEF IInv, TypeOK, Thread, At, Goto, threads, cells
<1>1. ASSUME NEW w \in Thread, Dispatch(w) PROVE Zeroes'
  <2>1. CASE Take(w)
    <3>1. UNCHANGED <<alloc, ref, quit, zero>>
      BY <2>1 DEF Take
    <3> QED BY <3>1, ZeroesSame
  <2>2. CASE DispatchQuit(w)
    <3>1. UNCHANGED <<alloc, ref, quit, zero>>
      BY <2>2 DEF DispatchQuit
    <3> QED BY <3>1, ZeroesSame
  <2>3. CASE DispatchClose(w)
    <3>1. cur[w] \in Cell /\ cur[w] = Actor(w) /\ zero[w] = NoCell
      BY <2>3, ActorType DEF DispatchClose, Phases, Actor
    <3>2. ref[cur[w]] > 0
      BY <2>3, <3>1, OwnState, Referenced DEF DispatchClose
    <3>3. UNCHANGED <<alloc, quit, zero>> /\ ref' = [ref EXCEPT ![cur[w]] = @ + 1]
      BY <2>3 DEF DispatchClose, Grabbed
    <3>4. \A c \in Cell : (ref[c] = 0 => ref'[c] = 0) /\ (ref[c] # 0 => ref'[c] # 0)
      BY <3>1, <3>2, <3>3
    <3> QED BY <3>1, <3>3, <3>4, ZeroesGrab
  <2>4. CASE DispatchEmpty(w)
    <3>1. UNCHANGED <<alloc, ref, quit, zero>>
      BY <2>4 DEF DispatchEmpty
    <3> QED BY <3>1, ZeroesSame
  <2>5. CASE DispatchMessage(w)
    <3>1. cur[w] \in Cell /\ zero[w] = NoCell
      BY <2>5, ActorType DEF DispatchMessage
    <3>2. cur[w] = Actor(w) /\ L[cur[w]]
      BY <2>5 DEF DispatchMessage, Phases, Actor
    <3>3. ref[cur[w]] > 0
      <4>1. pc[w] \in {"lock", "run", "load"} /\ L[Actor(w)]
        BY <2>5, <3>1, <3>2 DEF DispatchMessage
      <4>2. cur[w] \in map[cur[w]]
        BY <3>1, <3>2, <4>1, OwnState
      <4> QED BY <3>1, <4>2, Referenced
    <3>4. mq[cur[w]] # <<>> /\ UNCHANGED <<alloc, quit, zero>>
          /\ ref' = Unpacked(Grabbed(ref, cur[w]), cur[w], Head(mq[cur[w]]))
      BY <2>5 DEF DispatchMessage, NextMessage
    <3>5. 1 \in DOMAIN mq[cur[w]] /\ Head(mq[cur[w]]) = mq[cur[w]][1]
      BY <3>1, <3>4, SeqHead
    <3>6. ASSUME NEW c \in Cell
          PROVE  (ref[c] = 0 => ref'[c] = 0) /\ (ref[c] # 0 => ref'[c] # 0)
      <4>1. c \in Head(mq[cur[w]]) \intersect map[cur[w]] => ref[c] > 1
        BY <3>1, <3>5, ReferencedTwice
      <4>2. ref[c] \in Nat
        OBVIOUS
      <4>4. ref'[c] = IF c \in Head(mq[cur[w]]) \intersect map[cur[w]] THEN (IF c = cur[w] THEN ref[c] + 1 ELSE ref[c]) - 1 ELSE (IF c = cur[w] THEN ref[c] + 1 ELSE ref[c])
        BY <3>1, <3>4 DEF Unpacked, Grabbed
      <4> QED BY <4>1, <4>2, <4>4, <3>3
    <3> QED BY <3>1, <3>4, <3>6, ZeroesGrab
  <2>6. CASE EndMessage(w)
    <3>1. cur[w] \in Cell /\ w # main /\ zero[w] = NoCell
      BY <2>6, ActorType DEF EndMessage, Phases
    <3>2. ref[cur[w]] # 0
      <4>1. Dispatching(w, cur[w])
        BY <2>6, <3>1 DEF Dispatching, EndMessage
      <4>2. ref[cur[w]] > 0
        BY <3>1, <4>1, Referenced
      <4> QED BY <4>2
    <3>3. UNCHANGED <<alloc, quit>> /\ Release(w, cur[w])
      BY <2>6 DEF EndMessage
    <3> QED BY <3>1, <3>2, <3>3, ZeroesRelease
  <2>7. CASE PushBack(w)
    <3>1. UNCHANGED <<alloc, ref, quit, zero>>
      BY <2>7 DEF PushBack
    <3> QED BY <3>1, ZeroesSame
  <2> QED BY <1>1, <2>1, <2>2, <2>3, <2>4, <2>5, <2>6, <2>7 DEF Dispatch
<1>2. ASSUME NEW w \in Thread, Dispose(w) PROVE Zeroes'
  <2>1. CASE SetQuit(w)
    <3>1. zero[w] # NoCell /\ UNCHANGED <<alloc, ref>>
          /\ quit' = [quit EXCEPT ![zero[w]] = TRUE] /\ zero' = [zero EXCEPT ![w] = NoCell]
      BY <2>1 DEF SetQuit
    <3>2. zero[w] \in Cell /\ ref[zero[w]] = 0
      BY <3>1 DEF Unreferenced
    <3>3. \A v \in Thread : zero'[v] # NoCell => v # w /\ zero'[v] = zero[v] /\ zero[v] # zero[w]
      BY <3>1 DEF Unreferenced
    <3>4. \A c \in Cell : quit'[c] => quit[c] \/ c = zero[w]
      BY <3>1
    <3>5. \A v \in Thread : zero'[v] # NoCell => ref'[zero'[v]] = 0 /\ ~quit'[zero'[v]]
      BY <3>1, <3>3, <3>4 DEF Unreferenced
    <3>6. \A u, v \in Thread : zero'[u] = zero'[v] /\ zero'[u] # NoCell => u = v
      BY <3>3 DEF Unreferenced
    <3>7. \A c \in Cell : quit'[c] => ref'[c] = 0
      BY <3>1, <3>2, <3>4 DEF Unreferenced
    <3>8. ASSUME NEW c \in alloc', ref'[c] = 0
          PROVE  quit'[c] \/ \E v \in Thread : zero'[v] = c
      <4>1. c \in Cell /\ (quit[c] \/ \E v \in Thread : zero[v] = c)
        BY <3>1, <3>8 DEF Unreferenced
      <4>2. CASE c = zero[w]
        BY <3>1, <3>2, <4>2
      <4>3. CASE c # zero[w] /\ quit[c]
        BY <3>1, <4>1, <4>3
      <4>4. ASSUME c # zero[w], NEW v \in Thread, zero[v] = c
            PROVE  zero'[v] = c
        BY <3>1, <4>4
      <4> QED BY <4>1, <4>2, <4>3, <4>4
    <3> QED BY <3>5, <3>6, <3>7, <3>8 DEF Zeroes
  <2>2. CASE TrashMessage(w)
    <3>1. cur[w] \in Cell /\ zero[w] = NoCell
      BY <2>2, ActorType DEF TrashMessage
    <3>4. mq[cur[w]] # <<>> /\ UNCHANGED <<alloc, quit, zero>>
          /\ ref' = Unpacked(ref, cur[w], Head(mq[cur[w]]))
      BY <2>2 DEF TrashMessage, NextMessage
    <3>5. 1 \in DOMAIN mq[cur[w]] /\ Head(mq[cur[w]]) = mq[cur[w]][1]
      BY <3>1, <3>4, SeqHead
    <3>6. ASSUME NEW c \in Cell
          PROVE  (ref[c] = 0 => ref'[c] = 0) /\ (ref[c] # 0 => ref'[c] # 0)
      <4>1. c \in Head(mq[cur[w]]) \intersect map[cur[w]] => ref[c] > 1
        BY <3>1, <3>5, ReferencedTwice
      <4>2. ref[c] \in Nat
        OBVIOUS
      <4>4. ref'[c] = IF c \in Head(mq[cur[w]]) \intersect map[cur[w]] THEN ref[c] - 1 ELSE ref[c]
        BY <3>1, <3>4 DEF Unpacked, Grabbed
      <4> QED BY <4>1, <4>2, <4>4
    <3> QED BY <3>1, <3>4, <3>6, ZeroesGrab
  <2>3. CASE EndTrash(w)
    <3>1. cur[w] \in Cell /\ w # main /\ zero[w] = NoCell
      BY <2>3, ActorType DEF EndTrash, Phases
    <3>2. ref[cur[w]] # 0
      <4>1. Dispatching(w, cur[w])
        BY <2>3, <3>1 DEF Dispatching, EndTrash
      <4>2. ref[cur[w]] > 0
        BY <3>1, <4>1, Referenced
      <4> QED BY <4>2
    <3>3. UNCHANGED <<alloc, quit>> /\ Release(w, cur[w])
      BY <2>3 DEF EndTrash
    <3> QED BY <3>1, <3>2, <3>3, ZeroesRelease
  <2>4. ASSUME NEW x \in Cell, Finalize(w, x) PROVE Zeroes'
    <3>1. Actor(w) \in Cell /\ zero[w] = NoCell /\ UNCHANGED <<alloc, quit>> /\ Release(w, x)
      BY <2>4, ActorType DEF Finalize, InLua, Closing
    <3>2. x \in map[Actor(w)] \/ x \in dying[Actor(w)]
      BY <2>4 DEF Finalize
    <3>3. ref[x] # 0
      <4>1. PICK d \in Cell : x \in map[d] \/ x \in dying[d]
        BY <3>1, <3>2
      <4>2. ref[x] \in Nat /\ ref[x] > 0
        BY <4>1, Referenced DEF IInv, TypeOK
      <4> QED BY <4>2
    <3> QED BY <3>1, <3>3, ZeroesRelease
  <2>5. CASE EndClosing(w)
    <3>1. UNCHANGED <<alloc, ref, quit, zero>>
      BY <2>5 DEF EndClosing
    <3> QED BY <3>1, ZeroesSame
  <2>6. CASE EndFailing(w)
    <3>1. UNCHANGED <<alloc, ref, quit, zero>>
      BY <2>6 DEF EndFailing
    <3> QED BY <3>1, ZeroesSame
  <2>7. CASE Destroy(w)
    <3>1. /\ Actor(w) \in Cell
          /\ \A v \in Thread : zero[v] # Actor(w)
      BY <2>7, Destroyed DEF Destroy
    <3>2. alloc' = alloc \ {Actor(w)} /\ UNCHANGED <<ref, zero>>
          /\ quit' = [quit EXCEPT ![Actor(w)] = FALSE]
      BY <2>7 DEF Destroy
    <3>3. \A c \in Cell : (quit'[c] => quit[c]) /\ (c # Actor(w) /\ quit[c] => quit'[c])
      BY <3>1, <3>2
    <3>4. \A v \in Thread : zero[v] # NoCell => zero[v] \in Cell
      OBVIOUS
    <3> QED BY <3>1, <3>2, <3>3, <3>4 DEF Zeroes, Unreferenced
  <2>8. CASE Decrement(w)
    <3>1. UNCHANGED <<alloc, ref, quit, zero>>
      BY <2>8 DEF Decrement
    <3> QED BY <3>1, ZeroesSame
  <2> QED BY <1>2, <2>1, <2>2, <2>3, <2>4, <2>5, <2>6, <2>7, <2>8 DEF Dispose
<1>3. ASSUME NEW w \in Thread, Loading(w) PROVE Zeroes'
  <2>1. CASE EndLoad(w)
    <3>1. Actor(w) = new[w] /\ new[w] \in Cell /\ zero[w] = NoCell
      BY <2>1 DEF EndLoad, Actor, Phases
    <3>2. L[Actor(w)]
      BY <2>1 DEF EndLoad, LoadIsOpen, States
    <3>3. ref[new[w]] > 0
      <4>1. pc[w] \in {"lock", "run", "load"} /\ L[Actor(w)]
        BY <2>1, <3>1, <3>2 DEF EndLoad
      <4>2. new[w] \in map[new[w]]
        BY <3>1, <3>2, <4>1, OwnState
      <4> QED BY <3>1, <4>2, Referenced
    <3>4. UNCHANGED <<alloc, quit, zero>>
          /\ (ref' = ref \/ ref' = [ref EXCEPT ![new[w]] = @ + 1])
      BY <2>1 DEF EndLoad, Grabbed
    <3>5. \A c \in Cell : (ref[c] = 0 => ref'[c] = 0) /\ (ref[c] # 0 => ref'[c] # 0)
      BY <3>1, <3>3, <3>4
    <3> QED BY <3>1, <3>4, <3>5, ZeroesGrab
  <2>2. CASE FailLoad(w)
    <3>1. UNCHANGED <<alloc, ref, quit, zero>>
      BY <2>2 DEF FailLoad
    <3> QED BY <3>1, ZeroesSame
  <2> QED BY <1>3, <2>1, <2>2 DEF Loading
<1>4. ASSUME NEW w \in Thread, Call(w) PROVE Zeroes'
  <2>1. ASSUME NEW x \in Cell, NEW msg \in Message, Send(w, x, msg) PROVE Zeroes'
    <3>1. Actor(w) \in Cell /\ zero[w] = NoCell
      BY <2>1, ActorType DEF Send, InLua
    <3>2. UNCHANGED <<alloc, quit, zero>> /\ msg \subseteq map[Actor(w)] /\ ref' = Packed(ref, msg)
      BY <2>1 DEF Send
    <3>3. \A c \in msg : c \in Cell => ref[c] > 0
      BY <3>1, <3>2, Referenced
    <3>4. \A c \in Cell : ref[c] \in Nat /\ ref'[c] = IF c \in msg THEN ref[c] + 1 ELSE ref[c]
      BY <3>2 DEF Packed
    <3>5. \A c \in Cell : (ref[c] = 0 => ref'[c] = 0) /\ (ref[c] # 0 => ref'[c] # 0)
      BY <3>3, <3>4
    <3> QED BY <3>1, <3>2, <3>5, ZeroesGrab
  <2>2. ASSUME NEW x \in Cell, FailToPack(w, x) PROVE Zeroes'
    <3>1. Actor(w) \in Cell /\ zero[w] = NoCell
      BY <2>2, ActorType DEF FailToPack, InLua
    <3>2. UNCHANGED <<alloc, quit, zero>> /\ x \in map[Actor(w)] /\ ref' = [ref EXCEPT ![x] = @ + 1]
      BY <2>2 DEF FailToPack, Grabbed
    <3>3. ref[x] > 0
      BY <3>1, <3>2, Referenced
    <3>4. \A c \in Cell : (ref[c] = 0 => ref'[c] = 0) /\ (ref[c] # 0 => ref'[c] # 0)
      BY <3>2, <3>3
    <3> QED BY <3>1, <3>2, <3>4, ZeroesGrab
  <2>3. ASSUME NEW x \in Cell, Collect(w, x) PROVE Zeroes'
    <3>1. Actor(w) \in Cell /\ zero[w] = NoCell /\ UNCHANGED <<alloc, quit>>
          /\ (Release(w, x) \/ UNCHANGED <<ref, zero>>)
      BY <2>3, ActorType DEF Collect, InLua
    <3>2. x \in map[Actor(w)]
      BY <2>3 DEF Collect
    <3>3. ref[x] # 0
      <4>1. PICK d \in Cell : x \in map[d] \/ x \in dying[d]
        BY <3>1, <3>2
      <4>2. ref[x] \in Nat /\ ref[x] > 0
        BY <4>1, Referenced DEF IInv, TypeOK
      <4> QED BY <4>2
    <3> QED BY <3>1, <3>3, ZeroesRelease, ZeroesSame
  <2>4. ASSUME NEW x \in Cell, Kill(w, x) PROVE Zeroes'
    <3>1. UNCHANGED <<alloc, ref, quit, zero>>
      BY <2>4 DEF Kill
    <3> QED BY <3>1, ZeroesSame
  <2>5. ASSUME NEW n \in Cell, Launch(w, n) PROVE Zeroes'
    <3>1. Actor(w) = system /\ n \notin alloc /\ system \in alloc /\ zero[w] = NoCell
      BY <2>5, ActorAllocated DEF Launch, InLua
    <3>2. ref[system] > 0
      <4>1. new[w] = NoCell /\ pc[w] \in {"run", "trash"}
        BY <2>5 DEF Launch, InLua, Phases, Apart, Actor
      <4>2. CASE w = main
        <5>1. L[system] /\ pc[w] = "run"
          BY <4>1, <4>2, <2>5 DEF SystemOpen, Phases
        <5> QED BY <3>1, <5>1, OwnState, Referenced
      <4>3. CASE w # main
        <5>1. Dispatching(w, system)
          BY <3>1, <4>1, <4>3 DEF Dispatching, Actor
        <5> QED BY <5>1, Referenced
      <4> QED BY <4>2, <4>3
    <3>3. UNCHANGED <<quit, zero>> /\ alloc' = alloc \union {n}
          /\ ref' = [ref EXCEPT ![n] = 1, ![system] = @ + 1]
      BY <2>5 DEF Launch
    <3>4. n # system /\ ref'[n] = 1 /\ ref[system] # 0 /\ ref'[system] # 0
          /\ \A c \in Cell \ {n, system} : ref'[c] = ref[c]
      BY <3>1, <3>2, <3>3
    <3>5. ~quit[n]
      BY <3>1 DEF Free
    <3>6. \A v \in Thread : zero[v] # n /\ (zero[v] # NoCell => zero[v] \in Cell)
      BY <3>1 DEF NoDangling
    <3> QED BY <3>1, <3>3, <3>4, <3>5, <3>6 DEF Zeroes, Unreferenced
  <2> QED BY <1>4, <2>1, <2>2, <2>3, <2>4, <2>5 DEF Call
<1>5. ASSUME NEW w \in Worker, EndRound(w) PROVE Zeroes'
  <2>1. UNCHANGED <<alloc, ref, quit, zero>>
    BY <1>5 DEF EndRound
  <2> QED BY <2>1, ZeroesSame
<1>6. CASE StartThreads
  <2>1. UNCHANGED <<alloc, ref, quit, zero>>
    BY <1>6 DEF StartThreads
  <2> QED BY <2>1, ZeroesSame
<1>7. CASE Tick
  <2>1. UNCHANGED <<alloc, ref, quit, zero>>
    BY <1>7 DEF Tick
  <2> QED BY <2>1, ZeroesSame
<1>8. CASE Return
  <2>1. UNCHANGED <<alloc, ref, quit, zero>>
    BY <1>8 DEF Return
  <2> QED BY <2>1, ZeroesSame
<1>9. CASE StopTimer \/ Stopped \/ UNCHANGED vars
  <2>1. UNCHANGED <<alloc, ref, quit, zero>>
    BY <1>9 DEF StopTimer, Stopped, vars
  <2> QED BY <2>1, ZeroesSame
<1> QED BY <1>1, <1>2, <1>3, <1>4, <1>5, <1>6, <1>7, <1>8, <1>9 DEF Next

\* Nobody else begins to destroy a cell, and the cells destroyed remain so.
LEMMA DestroyingFrame ==
  ASSUME IInv,
         \A v \in Thread : pc'[v] = "destroy" =>
           /\ pc[v] = "destroy" /\ Actor(v)' = Actor(v) /\ new'[v] = new[v]
           /\ (quit[Actor(v)] => quit'[Actor(v)]) /\ (L'[Actor(v)] => L[Actor(v)])
  PROVE  Destroying'
BY DEF IInv, Unreferenced, Destroying, FailedToLoad

\* Only a cell marked to quit, or that failed to load, and whose Lua state is closed,
\* is destroyed.
LEMMA DestroyingStep ==
  ASSUME IInv, [Next]_vars
  PROVE  Destroying'
<1> USE ThreadAssumption, CellAssumption
<1> USE DEF IInv, TypeOK, Thread, At, Goto, threads, cells
<1>1. ASSUME NEW w \in Thread, Dispatch(w) PROVE Destroying'
  <2>1. CASE Take(w)
    <3>1. quit' = quit /\ L' = L
      BY <2>1 DEF Take
    <3>2. \A v \in Thread : pc'[v] = "destroy" => pc[v] = "destroy" /\ Actor(v)' = Actor(v) /\ new'[v] = new[v]
      BY <2>1 DEF Take, Actor
    <3> QED BY <3>1, <3>2, DestroyingFrame
  <2>2. CASE DispatchQuit(w)
    <3>1. quit' = quit /\ L' = L /\ quit[cur[w]] /\ cur[w] \in Cell /\ Actor(w) = cur[w] /\ Actor(w)' = cur[w]
      BY <2>2, ActorType DEF DispatchQuit, Phases, Actor
    <3>2. ~L[cur[w]]
      <4>1. ref[cur[w]] = 0
        BY <3>1 DEF Unreferenced
      <4>2. L[cur[w]] => ref[cur[w]] > 0
        BY <2>2, <3>1, OwnState, Referenced DEF DispatchQuit
      <4> QED BY <4>1, <4>2
    <3>3. \A v \in Thread : pc'[v] = "destroy" /\ v # w => pc[v] = "destroy" /\ Actor(v)' = Actor(v) /\ new'[v] = new[v]
      BY <2>2 DEF DispatchQuit, Actor
    <3>4. \A v \in Thread : v # w /\ pc'[v] = "destroy" =>
            ~L'[Actor(v)'] /\ (FailedToLoad(v)' \/ quit'[Actor(v)'])
      BY <3>1, <3>3 DEF Unreferenced, FailedToLoad
    <3>5. quit'[Actor(w)'] /\ ~L'[Actor(w)']
      BY <3>1, <3>2
    <3> QED BY <3>4, <3>5 DEF Destroying
  <2>3. CASE DispatchClose(w)
    <3>1. cur[w] \in Cell /\ quit' = quit /\ L' = [L EXCEPT ![cur[w]] = FALSE]
      BY <2>3, ActorType DEF DispatchClose
    <3>2. \A v \in Thread : pc'[v] = "destroy" => pc[v] = "destroy" /\ Actor(v)' = Actor(v) /\ new'[v] = new[v] /\ Actor(v) \in Cell
      BY <2>3, ActorType DEF DispatchClose, Actor
    <3>3. \A c \in Cell : L'[c] => L[c]
      BY <3>1
    <3> QED BY <3>1, <3>2, <3>3, DestroyingFrame
  <2>4. CASE DispatchEmpty(w)
    <3>1. quit' = quit /\ L' = L
      BY <2>4 DEF DispatchEmpty
    <3>2. \A v \in Thread : pc'[v] = "destroy" => pc[v] = "destroy" /\ Actor(v)' = Actor(v) /\ new'[v] = new[v]
      BY <2>4 DEF DispatchEmpty, Actor
    <3> QED BY <3>1, <3>2, DestroyingFrame
  <2>5. CASE DispatchMessage(w)
    <3>1. quit' = quit /\ L' = L
      BY <2>5 DEF DispatchMessage
    <3>2. \A v \in Thread : pc'[v] = "destroy" => pc[v] = "destroy" /\ Actor(v)' = Actor(v) /\ new'[v] = new[v]
      BY <2>5 DEF DispatchMessage, Actor
    <3> QED BY <3>1, <3>2, DestroyingFrame
  <2>6. CASE EndMessage(w)
    <3>1. quit' = quit /\ L' = L
      BY <2>6 DEF EndMessage
    <3>2. \A v \in Thread : pc'[v] = "destroy" => pc[v] = "destroy" /\ Actor(v)' = Actor(v) /\ new'[v] = new[v]
      BY <2>6 DEF EndMessage, Actor, Release
    <3> QED BY <3>1, <3>2, DestroyingFrame
  <2>7. CASE PushBack(w)
    <3>1. quit' = quit /\ L' = L
      BY <2>7 DEF PushBack
    <3>2. \A v \in Thread : pc'[v] = "destroy" => pc[v] = "destroy" /\ Actor(v)' = Actor(v) /\ new'[v] = new[v]
      BY <2>7 DEF PushBack, Actor
    <3> QED BY <3>1, <3>2, DestroyingFrame
  <2> QED BY <1>1, <2>1, <2>2, <2>3, <2>4, <2>5, <2>6, <2>7 DEF Dispatch
<1>2. ASSUME NEW w \in Thread, Dispose(w) PROVE Destroying'
  <2>1. CASE SetQuit(w)
    <3>1. zero[w] \in Cell /\ L' = L /\ quit' = [quit EXCEPT ![zero[w]] = TRUE]
      BY <2>1 DEF SetQuit
    <3>2. \A v \in Thread : pc'[v] = "destroy" => pc[v] = "destroy" /\ Actor(v)' = Actor(v) /\ new'[v] = new[v] /\ Actor(v) \in Cell
      BY <2>1, ActorType DEF SetQuit, Actor
    <3>3. \A c \in Cell : quit[c] => quit'[c]
      BY <3>1
    <3> QED BY <3>1, <3>2, <3>3, DestroyingFrame
  <2>2. CASE TrashMessage(w)
    <3>1. quit' = quit /\ L' = L
      BY <2>2 DEF TrashMessage
    <3>2. \A v \in Thread : pc'[v] = "destroy" => pc[v] = "destroy" /\ Actor(v)' = Actor(v) /\ new'[v] = new[v]
      BY <2>2 DEF TrashMessage, Actor
    <3> QED BY <3>1, <3>2, DestroyingFrame
  <2>3. CASE EndTrash(w)
    <3>1. quit' = quit /\ L' = L
      BY <2>3 DEF EndTrash
    <3>2. \A v \in Thread : pc'[v] = "destroy" => pc[v] = "destroy" /\ Actor(v)' = Actor(v) /\ new'[v] = new[v]
      BY <2>3 DEF EndTrash, Actor, Release
    <3> QED BY <3>1, <3>2, DestroyingFrame
  <2>4. ASSUME NEW x \in Cell, Finalize(w, x) PROVE Destroying'
    <3>1. quit' = quit /\ L' = L
      BY <2>4 DEF Finalize
    <3>2. \A v \in Thread : pc'[v] = "destroy" => pc[v] = "destroy" /\ Actor(v)' = Actor(v) /\ new'[v] = new[v]
      BY <2>4 DEF Finalize, Actor
    <3> QED BY <3>1, <3>2, DestroyingFrame
  <2>5. CASE EndClosing(w)
    <3>1. quit' = quit /\ L' = L
      BY <2>5 DEF EndClosing
    <3>2. \A v \in Thread : pc'[v] = "destroy" => pc[v] = "destroy" /\ Actor(v)' = Actor(v) /\ new'[v] = new[v]
      BY <2>5 DEF EndClosing, Actor
    <3> QED BY <3>1, <3>2, DestroyingFrame
  <2>6. CASE EndFailing(w)
    <3>1. Actor(w) \in Cell /\ (new[w] # NoCell \/ w = main)
      BY <2>6, Failed DEF EndFailing
    <3>2. quit' = quit /\ L' = [L EXCEPT ![Actor(w)] = FALSE] /\ Actor(w)' = Actor(w)
      BY <2>6 DEF EndFailing, Actor
    <3>3. ASSUME NEW v \in Thread, v # w, pc'[v] = "destroy"
          PROVE  pc[v] = "destroy" /\ Actor(v)' = Actor(v) /\ new'[v] = new[v] /\ Actor(v) \in Cell
      BY <2>6, <3>3, ActorType DEF EndFailing, Actor
    <3>4. \A c \in Cell : L'[c] => L[c] /\ c # Actor(w)
      BY <3>1, <3>2
    <3>5. \A v \in Thread : v # w /\ pc'[v] = "destroy" =>
            ~L'[Actor(v)'] /\ (FailedToLoad(v)' \/ quit'[Actor(v)'])
      BY <3>2, <3>3, <3>4 DEF Unreferenced, FailedToLoad
    <3>6. ~L'[Actor(w)'] /\ FailedToLoad(w)'
      BY <2>6, <3>1, <3>2, <3>4 DEF EndFailing, FailedToLoad
    <3> QED BY <3>5, <3>6 DEF Destroying
  <2>7. CASE Destroy(w)
    <3>1. Actor(w) \in Cell
      BY <2>7, Destroyed DEF Destroy
    <3>2. L' = L /\ quit' = [quit EXCEPT ![Actor(w)] = FALSE]
      BY <2>7 DEF Destroy
    <3>3. \A v \in Thread : pc'[v] = "destroy" => v # w /\ pc[v] = "destroy" /\ Actor(v)' = Actor(v) /\ new'[v] = new[v]
      <4>1. pc'[w] # "destroy" /\ \A v \in Thread \ {w} : pc'[v] = pc[v]
        BY <2>7, SMTT(20) DEF Destroy, Caller
      <4>2. \A v \in Thread \ {w} : new'[v] = new[v] /\ cur'[v] = cur[v]
        BY <2>7, SMTT(20) DEF Destroy
      <4> QED BY <4>1, <4>2 DEF Actor
    <3>4. \A v \in Thread : v # w => Actor(v) # Actor(w)
      BY <3>1, ActorsApart
    <3>5. \A v \in Thread : pc[v] = "destroy" => Actor(v) \in Cell
      BY ActorType
    <3>6. \A c \in Cell \ {Actor(w)} : quit[c] => quit'[c]
      BY <3>2
    <3> QED BY <3>2, <3>3, <3>4, <3>5, <3>6, DestroyingFrame
  <2>8. CASE Decrement(w)
    <3>1. quit' = quit /\ L' = L
      BY <2>8 DEF Decrement
    <3>2. \A v \in Thread : pc'[v] = "destroy" => pc[v] = "destroy" /\ Actor(v)' = Actor(v) /\ new'[v] = new[v]
      BY <2>8 DEF Decrement, Actor
    <3> QED BY <3>1, <3>2, DestroyingFrame
  <2> QED BY <1>2, <2>1, <2>2, <2>3, <2>4, <2>5, <2>6, <2>7, <2>8 DEF Dispose
<1>3. ASSUME NEW w \in Thread, Loading(w) PROVE Destroying'
  <2>1. CASE EndLoad(w)
    <3>1. quit' = quit /\ L' = L
      BY <2>1 DEF EndLoad
    <3>2. \A v \in Thread : pc'[v] = "destroy" => pc[v] = "destroy" /\ Actor(v)' = Actor(v) /\ new'[v] = new[v]
      BY <2>1 DEF EndLoad, Actor, Caller
    <3> QED BY <3>1, <3>2, DestroyingFrame
  <2>2. CASE FailLoad(w)
    <3>1. quit' = quit /\ L' = L
      BY <2>2 DEF FailLoad
    <3>2. \A v \in Thread : pc'[v] = "destroy" => pc[v] = "destroy" /\ Actor(v)' = Actor(v) /\ new'[v] = new[v]
      BY <2>2 DEF FailLoad, Actor
    <3> QED BY <3>1, <3>2, DestroyingFrame
  <2> QED BY <1>3, <2>1, <2>2 DEF Loading
<1>4. ASSUME NEW w \in Thread, Call(w) PROVE Destroying'
  <2>1. ASSUME NEW x \in Cell, NEW msg \in Message, Send(w, x, msg) PROVE Destroying'
    <3>1. quit' = quit /\ L' = L
      BY <2>1 DEF Send
    <3>2. \A v \in Thread : pc'[v] = "destroy" => pc[v] = "destroy" /\ Actor(v)' = Actor(v) /\ new'[v] = new[v]
      BY <2>1 DEF Send, Actor
    <3> QED BY <3>1, <3>2, DestroyingFrame
  <2>2. ASSUME NEW x \in Cell, FailToPack(w, x) PROVE Destroying'
    <3>1. quit' = quit /\ L' = L
      BY <2>2 DEF FailToPack
    <3>2. \A v \in Thread : pc'[v] = "destroy" => pc[v] = "destroy" /\ Actor(v)' = Actor(v) /\ new'[v] = new[v]
      BY <2>2 DEF FailToPack, Actor
    <3> QED BY <3>1, <3>2, DestroyingFrame
  <2>3. ASSUME NEW x \in Cell, Collect(w, x) PROVE Destroying'
    <3>1. quit' = quit /\ L' = L
      BY <2>3 DEF Collect
    <3>2. \A v \in Thread : pc'[v] = "destroy" => pc[v] = "destroy" /\ Actor(v)' = Actor(v) /\ new'[v] = new[v]
      BY <2>3 DEF Collect, Actor
    <3> QED BY <3>1, <3>2, DestroyingFrame
  <2>4. ASSUME NEW x \in Cell, Kill(w, x) PROVE Destroying'
    <3>1. quit' = quit /\ L' = L
      BY <2>4 DEF Kill
    <3>2. \A v \in Thread : pc'[v] = "destroy" => pc[v] = "destroy" /\ Actor(v)' = Actor(v) /\ new'[v] = new[v]
      BY <2>4 DEF Kill, Actor
    <3> QED BY <3>1, <3>2, DestroyingFrame
  <2>5. ASSUME NEW n \in Cell, Launch(w, n) PROVE Destroying'
    <3>1. quit' = quit /\ n \notin alloc /\ L' = [L EXCEPT ![n] = TRUE]
      BY <2>5 DEF Launch
    <3>2. \A v \in Thread : pc'[v] = "destroy" => pc[v] = "destroy" /\ Actor(v)' = Actor(v) /\ new'[v] = new[v]
      BY <2>5 DEF Launch, Actor
    <3>3. \A v \in Thread : pc[v] = "destroy" => Actor(v) \in Cell /\ Actor(v) # n
      BY <3>1, ActorType, ActorAllocated
    <3>4. \A c \in Cell \ {n} : L'[c] => L[c]
      BY <3>1
    <3> QED BY <3>1, <3>2, <3>3, <3>4, DestroyingFrame
  <2> QED BY <1>4, <2>1, <2>2, <2>3, <2>4, <2>5 DEF Call
<1>5. ASSUME NEW w \in Worker, EndRound(w) PROVE Destroying'
  <2>1. quit' = quit /\ L' = L
    BY <1>5 DEF EndRound
  <2>2. \A v \in Thread : pc'[v] = "destroy" => pc[v] = "destroy" /\ Actor(v)' = Actor(v) /\ new'[v] = new[v]
    BY <1>5 DEF EndRound, Actor
  <2> QED BY <2>1, <2>2, DestroyingFrame
<1>6. CASE StartThreads
  <2>1. quit' = quit /\ L' = L
    BY <1>6 DEF StartThreads
  <2>2. \A v \in Thread : pc'[v] = "destroy" => pc[v] = "destroy" /\ Actor(v)' = Actor(v) /\ new'[v] = new[v]
    BY <1>6 DEF StartThreads, Actor
  <2> QED BY <2>1, <2>2, DestroyingFrame
<1>7. CASE Tick
  <2>1. quit' = quit /\ L' = L
    BY <1>7 DEF Tick
  <2>2. \A v \in Thread : pc'[v] = "destroy" => pc[v] = "destroy" /\ Actor(v)' = Actor(v) /\ new'[v] = new[v]
    BY <1>7 DEF Tick, Actor
  <2> QED BY <2>1, <2>2, DestroyingFrame
<1>8. CASE Return
  <2>1. quit' = quit /\ L' = L
    BY <1>8 DEF Return
  <2>2. \A v \in Thread : pc'[v] = "destroy" => pc[v] = "destroy" /\ Actor(v)' = Actor(v) /\ new'[v] = new[v]
    BY <1>8 DEF Return, Actor
  <2> QED BY <2>1, <2>2, DestroyingFrame
<1>9. CASE StopTimer \/ Stopped \/ UNCHANGED vars
  <2>1. UNCHANGED <<L, quit, pc, new, cur>>
    BY <1>9 DEF StopTimer, Stopped, vars
  <2> QED BY <2>1, DestroyingFrame DEF Actor
<1> QED BY <1>1, <1>2, <1>3, <1>4, <1>5, <1>6, <1>7, <1>8, <1>9 DEF Next

-----------------------------------------------------------------------------
(* Cells that load                                                         *)

\* The cell n that thread u loads is nobody's but its own.
Strange(u, n) ==
  /\ map[n] \subseteq {n, system}
  /\ \A d \in Cell \ {n} : n \notin map[d] \union dying[d]
  /\ \A d \in Cell \ {n, system} : \A i \in DOMAIN mq[d] : n \notin mq[d][i]
  /\ \A v \in Thread : zero[v] = n => v = u

\* What every other thread has to do with a cell that loads.
LEMMA LoadingApart ==
  ASSUME IInv, NEW u \in Thread, new[u] # NoCell
  PROVE  /\ new[u] \in Cell /\ new[u] \in alloc /\ new[u] # system /\ cur[u] = system
         /\ Strange(u, new[u])
         /\ \A w \in Thread : w # u => new[w] = NoCell /\ cur[w] # system /\ cur[w] # new[u]
<1> USE CellAssumption
<1>1. new[u] \in Cell /\ new[u] \in alloc
  BY DEF IInv, TypeOK, NoDangling
<1>2. cur[u] = system /\ \A w \in Thread : new[w] # NoCell => cur[w] = system
  BY DEF IInv, Phases
<1>3. \A w \in Thread : w # u => cur[w] # system
  BY <1>2 DEF IInv, Apart
<1>4. \A w \in Thread : cur[w] # new[u]
  BY DEF IInv, Apart
<1>5. Strange(u, new[u])
  BY DEF IInv, Unshared, Strange
<1> QED BY <1>1, <1>2, <1>3, <1>4, <1>5

\* No message in the queue of d packs n, in a queue that shrinks or grows.
LEMMA Unpackaged ==
  ASSUME IInv, NEW d \in Cell, NEW n, \A i \in DOMAIN mq[d] : n \notin mq[d][i]
  PROVE  /\ mq[d] # <<>> =>
              n \notin Head(mq[d]) /\ \A i \in DOMAIN Tail(mq[d]) : n \notin Tail(mq[d])[i]
         /\ \A msg \in Message : n \notin msg =>
              \A i \in DOMAIN Append(mq[d], msg) : n \notin Append(mq[d], msg)[i]
<1>1. mq[d] \in Seq(Message)
  BY DEF IInv, TypeOK
<1>2. ASSUME mq[d] # <<>>
      PROVE  n \notin Head(mq[d]) /\ \A i \in DOMAIN Tail(mq[d]) : n \notin Tail(mq[d])[i]
  BY <1>1, <1>2, SeqHead
<1>3. ASSUME NEW msg \in Message, n \notin msg
      PROVE  \A i \in DOMAIN Append(mq[d], msg) : n \notin Append(mq[d], msg)[i]
  <2>1. /\ Append(mq[d], msg)[Len(mq[d]) + 1] = msg
        /\ DOMAIN Append(mq[d], msg) = DOMAIN mq[d] \union {Len(mq[d]) + 1}
        /\ \A i \in DOMAIN mq[d] : Append(mq[d], msg)[i] = mq[d][i]
    BY <1>1, SeqAppend
  <2> QED BY <1>3, <2>1
<1> QED BY <1>2, <1>3

\* No step that begins nothing makes anything of the cells that load known.
LEMMA UnsharedFrame ==
  ASSUME IInv, NEW w \in Thread,
         \A u \in Thread : new'[u] # NoCell => new'[u] = new[u],
         \A v \in Thread \ {w} : zero'[v] = zero[v],
         \A u \in Thread : new[u] # NoCell /\ Strange(u, new[u]) =>
           /\ map'[new[u]] \subseteq map[new[u]]
           /\ \A d \in Cell \ {new[u]} :
                new[u] \notin map[d] \union dying[d] => new[u] \notin map'[d] \union dying'[d]
           /\ \A d \in Cell \ {new[u], system} :
                (\A i \in DOMAIN mq[d] : new[u] \notin mq[d][i])
                  => \A i \in DOMAIN mq'[d] : new[u] \notin mq'[d][i]
           /\ zero'[w] = new[u] => w = u
  PROVE  Unshared'
<1> SUFFICES ASSUME NEW u \in Thread, new'[u] # NoCell, NEW n, n = new'[u]
             PROVE  /\ map'[n] \subseteq {n, system}
                    /\ \A d \in Cell \ {n} : n \notin map'[d] \union dying'[d]
                    /\ \A d \in Cell \ {n, system} : \A i \in DOMAIN mq'[d] : n \notin mq'[d][i]
                    /\ \A v \in Thread : zero'[v] = n => v = u
  BY DEF Unshared
<1>1. new[u] = n /\ n # NoCell /\ Strange(u, n)
  BY LoadingApart
<1> QED BY <1>1 DEF Strange

\* A cell that dispatches a message is not the one that loads, nor its loader's, and
\* learns nothing of it.
LEMMA UnsharedPopped ==
  ASSUME IInv, NEW w \in Thread, UNCHANGED <<new, dying, zero>>,
         cur[w] \in Cell, new[w] = NoCell, mq[cur[w]] # <<>>,
         mq' = [mq EXCEPT ![cur[w]] = Tail(@)],
         map' = [map EXCEPT ![cur[w]] = @ \union Head(mq[cur[w]])]
  PROVE  Unshared'
<1>1. ASSUME NEW u \in Thread, new[u] # NoCell, Strange(u, new[u])
      PROVE  /\ map'[new[u]] \subseteq map[new[u]]
             /\ \A d \in Cell \ {new[u]} :
                  new[u] \notin map[d] \union dying[d] => new[u] \notin map'[d] \union dying'[d]
             /\ \A d \in Cell \ {new[u], system} :
                  (\A i \in DOMAIN mq[d] : new[u] \notin mq[d][i])
                    => \A i \in DOMAIN mq'[d] : new[u] \notin mq'[d][i]
             /\ zero'[w] = new[u] => w = u
  <2>1. u # w /\ cur[w] # system /\ cur[w] # new[u]
    BY <1>1, LoadingApart
  <2>2. \A i \in DOMAIN mq[cur[w]] : new[u] \notin mq[cur[w]][i]
    BY <1>1, <2>1 DEF Strange
  <2>3. new[u] \notin Head(mq[cur[w]]) /\ \A i \in DOMAIN Tail(mq[cur[w]]) : new[u] \notin Tail(mq[cur[w]])[i]
    BY <2>2, Unpackaged
  <2>4. /\ mq \in [Cell -> Seq(Message)] /\ map \in [Cell -> SUBSET Cell]
    BY DEF IInv, TypeOK
  <2>5. /\ \A d \in Cell : d # cur[w] => mq'[d] = mq[d] /\ map'[d] = map[d]
        /\ mq'[cur[w]] = Tail(mq[cur[w]]) /\ map'[cur[w]] = map[cur[w]] \union Head(mq[cur[w]])
    BY <2>4
  <2>6. new[u] \in Cell
    BY <1>1, LoadingApart
  <2> QED BY <1>1, <2>1, <2>3, <2>5, <2>6 DEF Strange
<1> QED BY <1>1, UnsharedFrame

\* No step makes a cell that loads known to another.
LEMMA UnsharedStep ==
  ASSUME IInv, [Next]_vars
  PROVE  Unshared'
<1> USE ThreadAssumption, CellAssumption
<1> USE DEF IInv, TypeOK, Thread, At, Goto, threads, cells
<1>1. ASSUME NEW w \in Thread, Dispatch(w) PROVE Unshared'
  <2>1. CASE Take(w) \/ DispatchQuit(w) \/ DispatchClose(w) \/ PushBack(w)
    <3>1. UNCHANGED <<new, map, dying, mq, zero>>
      BY <2>1 DEF Take, DispatchQuit, DispatchClose, PushBack
    <3> QED BY <3>1 DEF Unshared
  <2>2. CASE DispatchEmpty(w)
    <3>1. /\ UNCHANGED <<new, map, dying, zero>>
          /\ \A d \in Cell : mq'[d] = mq[d] \/ (mq[d] # <<>> /\ mq'[d] = Tail(mq[d]))
      BY <2>2 DEF DispatchEmpty
    <3>2. ASSUME NEW u \in Thread, new[u] # NoCell, NEW d \in Cell,
                 \A i \in DOMAIN mq[d] : new[u] \notin mq[d][i]
          PROVE  \A i \in DOMAIN mq'[d] : new[u] \notin mq'[d][i]
      BY <3>1, <3>2, Unpackaged
    <3>3. \A u \in Thread : new[u] # NoCell /\ Strange(u, new[u]) => (zero[w] = new[u] => w = u)
      BY DEF Strange
    <3> HIDE DEF IInv, TypeOK
    <3> QED BY <3>1, <3>2, <3>3, UnsharedFrame
  <2>3. CASE DispatchMessage(w)
    <3>1. /\ UNCHANGED <<new, dying, zero>> /\ cur[w] \in Cell /\ new[w] = NoCell /\ mq[cur[w]] # <<>>
          /\ mq' = [mq EXCEPT ![cur[w]] = Tail(@)]
          /\ map' = [map EXCEPT ![cur[w]] = @ \union Head(mq[cur[w]])]
      BY <2>3, ActorType DEF DispatchMessage, NextMessage, Phases
    <3> QED BY <3>1, UnsharedPopped
  <2>4. CASE EndMessage(w)
    <3>1. UNCHANGED <<new, map, dying, mq>> /\ zero'[w] \in {cur[w], NoCell}
          /\ \A v \in Thread \ {w} : zero'[v] = zero[v]
      BY <2>4 DEF EndMessage, Release
    <3>2. \A u \in Thread : new[u] # NoCell => zero'[w] # new[u]
      BY <3>1, LoadingApart DEF Apart
    <3> HIDE DEF IInv, TypeOK
    <3> QED BY <3>1, <3>2, UnsharedFrame
  <2> QED BY <1>1, <2>1, <2>2, <2>3, <2>4 DEF Dispatch
<1>2. ASSUME NEW w \in Thread, Dispose(w) PROVE Unshared'
  <2>1. CASE SetQuit(w)
    <3>1. UNCHANGED <<new, map, dying, mq>> /\ zero'[w] = NoCell
          /\ \A v \in Thread \ {w} : zero'[v] = zero[v]
      BY <2>1 DEF SetQuit
    <3> HIDE DEF IInv, TypeOK
    <3> QED BY <3>1, UnsharedFrame
  <2>2. CASE TrashMessage(w)
    <3>1. /\ UNCHANGED <<new, dying, zero>> /\ cur[w] \in Cell /\ new[w] = NoCell /\ mq[cur[w]] # <<>>
          /\ mq' = [mq EXCEPT ![cur[w]] = Tail(@)]
          /\ map' = [map EXCEPT ![cur[w]] = @ \union Head(mq[cur[w]])]
      BY <2>2, ActorType DEF TrashMessage, NextMessage, Phases
    <3> QED BY <3>1, UnsharedPopped
  <2>3. CASE EndTrash(w)
    <3>1. UNCHANGED <<new, map, dying, mq>> /\ zero'[w] \in {cur[w], NoCell}
          /\ \A v \in Thread \ {w} : zero'[v] = zero[v]
      BY <2>3 DEF EndTrash, Release
    <3>2. \A u \in Thread : new[u] # NoCell => zero'[w] # new[u]
      BY <3>1, LoadingApart DEF Apart
    <3> HIDE DEF IInv, TypeOK
    <3> QED BY <3>1, <3>2, UnsharedFrame
  <2>4. ASSUME NEW x \in Cell, Finalize(w, x) PROVE Unshared'
    <3>1. Actor(w) \in Cell
      BY <2>4, ActorType DEF Finalize, Closing, InLua
    <3>2. /\ UNCHANGED <<new, mq>> /\ zero'[w] \in {x, NoCell}
          /\ x \in map[Actor(w)] \union dying[Actor(w)]
          /\ \A v \in Thread \ {w} : zero'[v] = zero[v]
          /\ \A d \in Cell : map'[d] \subseteq map[d] /\ dying'[d] \subseteq dying[d]
      <4>1. UNCHANGED <<new, mq>> /\ zero'[w] \in {x, NoCell}
            /\ \A v \in Thread \ {w} : zero'[v] = zero[v]
        BY <2>4 DEF Finalize, Release
      <4>2. \/ x \in dying[Actor(w)] /\ dying' = [dying EXCEPT ![Actor(w)] = @ \ {x}] /\ map' = map
            \/ x \in map[Actor(w)] /\ map' = [map EXCEPT ![Actor(w)] = @ \ {x}] /\ dying' = dying
        BY <2>4 DEF Finalize
      <4>3. map \in [Cell -> SUBSET Cell] /\ dying \in [Cell -> SUBSET Cell]
        OBVIOUS
      <4> HIDE DEF IInv, TypeOK
      <4> QED BY <3>1, <4>1, <4>2, <4>3
    <3>3. ASSUME NEW u \in Thread, new[u] # NoCell, Strange(u, new[u]), zero'[w] = new[u]
          PROVE  w = u
      <4>1. new[u] \in map[Actor(w)] \union dying[Actor(w)]
        BY <3>2, <3>3
      <4>2. Actor(w) = new[u]
        BY <3>1, <3>3, <4>1 DEF Strange
      <4> QED BY <3>3, <4>2, LoadingApart DEF Actor
    <3> HIDE DEF IInv, TypeOK
    <3>4. ASSUME NEW u \in Thread, new[u] # NoCell, Strange(u, new[u])
          PROVE  /\ map'[new[u]] \subseteq map[new[u]]
                 /\ \A d \in Cell \ {new[u]} :
                      new[u] \notin map[d] \union dying[d] => new[u] \notin map'[d] \union dying'[d]
      BY <3>2, <3>4, LoadingApart
    <3> QED BY <3>2, <3>3, <3>4, UnsharedFrame
  <2>5. CASE EndClosing(w) \/ EndFailing(w) \/ Decrement(w)
    <3>1. UNCHANGED <<new, map, dying, mq, zero>>
      BY <2>5 DEF EndClosing, EndFailing, Decrement
    <3> QED BY <3>1 DEF Unshared
  <2>6. CASE Destroy(w)
    <3>1. /\ UNCHANGED <<map, dying, zero>> /\ \A u \in Thread : new'[u] # NoCell => new'[u] = new[u]
          /\ \A d \in Cell : mq'[d] = mq[d] \/ mq'[d] = <<>>
      BY <2>6 DEF Destroy
    <3>2. \A d \in Cell : \A n : (\A i \in DOMAIN mq[d] : n \notin mq[d][i])
                               => \A i \in DOMAIN mq'[d] : n \notin mq'[d][i]
      <4> SUFFICES ASSUME NEW d \in Cell, NEW n, \A i \in DOMAIN mq[d] : n \notin mq[d][i]
                   PROVE  \A i \in DOMAIN mq'[d] : n \notin mq'[d][i]
        OBVIOUS
      <4>1. mq'[d] = mq[d] \/ (mq'[d] = <<>> /\ DOMAIN <<>> = {})
        BY <3>1
      <4> QED BY <4>1
    <3>3. \A u \in Thread : new[u] # NoCell /\ Strange(u, new[u]) => (zero[w] = new[u] => w = u)
      BY DEF Strange
    <3> HIDE DEF IInv, TypeOK
    <3> QED BY <3>1, <3>2, <3>3, UnsharedFrame
  <2> QED BY <1>2, <2>1, <2>2, <2>3, <2>4, <2>5, <2>6 DEF Dispose
<1>3. ASSUME NEW w \in Thread, Loading(w) PROVE Unshared'
  <2>1. CASE EndLoad(w)
    <3>1. new[w] # NoCell /\ new'[w] = NoCell /\ \A u \in Thread \ {w} : new'[u] = new[u]
      BY <2>1 DEF EndLoad, Phases
    <3>2. \A u \in Thread : new'[u] = NoCell
      BY <3>1, LoadingApart
    <3> QED BY <3>2 DEF Unshared
  <2>2. CASE FailLoad(w)
    <3>1. UNCHANGED <<new, map, dying, mq, zero>>
      BY <2>2 DEF FailLoad
    <3> QED BY <3>1 DEF Unshared
  <2> QED BY <1>3, <2>1, <2>2 DEF Loading
<1>4. ASSUME NEW w \in Thread, Call(w) PROVE Unshared'
  <2>1. ASSUME NEW x \in Cell, NEW msg \in Message, Send(w, x, msg) PROVE Unshared'
    <3>1. /\ UNCHANGED <<new, map, dying, zero>> /\ Actor(w) \in Cell
          /\ x \in map[Actor(w)] /\ msg \subseteq map[Actor(w)]
          /\ mq' = [mq EXCEPT ![x] = Append(@, msg)]
      BY <2>1, ActorType DEF Send, InLua
    <3>2. ASSUME NEW u \in Thread, new[u] # NoCell, Strange(u, new[u]),
                 NEW d \in Cell \ {new[u], system}, \A i \in DOMAIN mq[d] : new[u] \notin mq[d][i]
          PROVE  \A i \in DOMAIN mq'[d] : new[u] \notin mq'[d][i]
      <4>1. CASE d # x
        BY <3>1, <3>2, <4>1
      <4>2. CASE d = x
        <5>1. new[u] \notin msg
          BY <3>1, <3>2, <4>2 DEF Strange
        <5>2. mq'[d] = Append(mq[d], msg)
          BY <3>1, <4>2
        <5> QED BY <3>2, <5>1, <5>2, Unpackaged
      <4> QED BY <4>1, <4>2
    <3>3. \A u \in Thread : new[u] # NoCell /\ Strange(u, new[u]) => (zero[w] = new[u] => w = u)
      BY DEF Strange
    <3> HIDE DEF IInv, TypeOK
    <3> QED BY <3>1, <3>2, <3>3, UnsharedFrame
  <2>2. ASSUME NEW x \in Cell, FailToPack(w, x) \/ Kill(w, x) PROVE Unshared'
    <3>1. UNCHANGED <<new, map, dying, mq, zero>>
      BY <2>2 DEF FailToPack, Kill
    <3> QED BY <3>1 DEF Unshared
  <2>3. ASSUME NEW x \in Cell, Collect(w, x) PROVE Unshared'
    <3>1. Actor(w) \in Cell
      BY <2>3, ActorType DEF Collect, InLua
    <3>2. /\ UNCHANGED <<new, mq>> /\ zero'[w] \in {x, NoCell} /\ zero[w] = NoCell
          /\ x \in map[Actor(w)] /\ x # Actor(w)
          /\ \A v \in Thread \ {w} : zero'[v] = zero[v]
          /\ \A d \in Cell : map'[d] \subseteq map[d]
          /\ \A d \in Cell : dying'[d] \subseteq dying[d] \/ (d = Actor(w) /\ dying'[d] \subseteq dying[d] \union {x})
      BY <2>3, <3>1 DEF Collect, Release, InLua
    <3>3. ASSUME NEW u \in Thread, new[u] # NoCell, Strange(u, new[u])
          PROVE  x # new[u]
      BY <3>1, <3>2, <3>3 DEF Strange
    <3> HIDE DEF IInv, TypeOK
    <3>4. ASSUME NEW u \in Thread, new[u] # NoCell, Strange(u, new[u])
          PROVE  /\ map'[new[u]] \subseteq map[new[u]]
                 /\ \A d \in Cell \ {new[u]} :
                      new[u] \notin map[d] \union dying[d] => new[u] \notin map'[d] \union dying'[d]
                 /\ zero'[w] # new[u]
      BY <3>2, <3>3, <3>4, LoadingApart
    <3> QED BY <3>2, <3>4, UnsharedFrame
  <2>4. ASSUME NEW n \in Cell, Launch(w, n) PROVE Unshared'
    <3>1. /\ n \notin alloc /\ Actor(w) = system /\ UNCHANGED <<mq, dying, zero>>
          /\ map' = [map EXCEPT ![n] = {n, system}] /\ new' = [new EXCEPT ![w] = n]
      BY <2>4 DEF Launch
    <3>2. new[w] = NoCell /\ cur[w] = system
      BY <3>1, LoadingApart DEF Actor
    <3>3. \A u \in Thread \ {w} : new'[u] = NoCell
      BY <3>1, <3>2, LoadingApart
    <3>4. /\ \A d \in Cell : n \notin map[d] \union dying[d]
          /\ \A d \in Cell : \A i \in DOMAIN mq[d] : n \notin mq[d][i]
          /\ \A v \in Thread : zero[v] # n
      BY <3>1 DEF NoDangling, ToSet
    <3>5. /\ map'[n] = {n, system} /\ \A d \in Cell \ {n} : map'[d] = map[d]
          /\ new'[w] = n
      BY <3>1
    <3> QED BY <3>1, <3>3, <3>4, <3>5 DEF Unshared
  <2> QED BY <1>4, <2>1, <2>2, <2>3, <2>4 DEF Call
<1>5. ASSUME NEW w \in Worker, EndRound(w) PROVE Unshared'
  <2>1. UNCHANGED <<new, map, dying, mq, zero>>
    BY <1>5 DEF EndRound
  <2> QED BY <2>1 DEF Unshared
<1>6. CASE Tick
  <2>1. UNCHANGED <<new, map, dying, zero>> /\ \A d \in Cell \ {system} : mq'[d] = mq[d]
    BY <1>6 DEF Tick
  <2> QED BY <2>1 DEF Unshared
<1>7. CASE StartThreads \/ Return \/ StopTimer \/ Stopped \/ UNCHANGED vars
  <2>1. UNCHANGED <<new, map, dying, mq, zero>>
    BY <1>7 DEF StartThreads, Return, StopTimer, Stopped, vars
  <2> QED BY <2>1 DEF Unshared
<1> QED BY <1>1, <1>2, <1>3, <1>4, <1>5, <1>6, <1>7 DEF Next

-----------------------------------------------------------------------------
(* The count of cells                                                      *)

Quitters == {v \in Worker : pc[v] = "dec"}

\* The counts of the current state.
LEMMA CountFacts ==
  ASSUME IInv
  PROVE  /\ IsFiniteSet(alloc) /\ Cardinality(alloc) \in Nat
         /\ IsFiniteSet(Quitters) /\ Cardinality(Quitters) \in Nat
         /\ total \in Nat /\ total >= Cardinality(alloc) + Cardinality(Quitters)
<1>1. IsFiniteSet(alloc) /\ Cardinality(alloc) \in Nat
  BY CellAssumption, FS_Subset, FS_CardinalityType DEF IInv, TypeOK
<1>2. IsFiniteSet(Quitters) /\ Cardinality(Quitters) \in Nat
  BY ThreadAssumption, FS_Subset, FS_CardinalityType DEF Quitters
<1> QED BY <1>1, <1>2 DEF IInv, TypeOK, Counted, Quitters

\* Nothing that is counted changes.
LEMMA CountedSame ==
  ASSUME IInv, alloc' = alloc, total' = total,
         \A v \in Worker : pc'[v] = "dec" <=> pc[v] = "dec"
  PROVE  Counted'
<1>1. Quitters' = Quitters
  BY DEF Quitters
<1> QED BY <1>1, CountFacts DEF Counted, Quitters

\* total stays above the number of cells: it goes up before a cell is created and
\* down after it is destroyed.
LEMMA CountedStep ==
  ASSUME IInv, [Next]_vars
  PROVE  Counted'
<1> USE ThreadAssumption, CellAssumption
<1> USE DEF IInv, TypeOK, Thread, At, Goto, threads, cells
<1>1. ASSUME NEW w \in Thread, Dispatch(w) PROVE Counted'
  <2>1. CASE Take(w)
    <3>1. alloc' = alloc /\ total' = total
      BY <2>1 DEF Take
    <3>2. \A v \in Worker : pc'[v] = "dec" <=> pc[v] = "dec"
      BY <2>1 DEF Take
    <3> QED BY <3>1, <3>2, CountedSame
  <2>2. CASE DispatchQuit(w)
    <3>1. alloc' = alloc /\ total' = total
      BY <2>2 DEF DispatchQuit
    <3>2. \A v \in Worker : pc'[v] = "dec" <=> pc[v] = "dec"
      BY <2>2 DEF DispatchQuit
    <3> QED BY <3>1, <3>2, CountedSame
  <2>3. CASE DispatchClose(w)
    <3>1. alloc' = alloc /\ total' = total
      BY <2>3 DEF DispatchClose
    <3>2. \A v \in Worker : pc'[v] = "dec" <=> pc[v] = "dec"
      BY <2>3 DEF DispatchClose
    <3> QED BY <3>1, <3>2, CountedSame
  <2>4. CASE DispatchEmpty(w)
    <3>1. alloc' = alloc /\ total' = total
      BY <2>4 DEF DispatchEmpty
    <3>2. \A v \in Worker : pc'[v] = "dec" <=> pc[v] = "dec"
      BY <2>4 DEF DispatchEmpty
    <3> QED BY <3>1, <3>2, CountedSame
  <2>5. CASE DispatchMessage(w)
    <3>1. alloc' = alloc /\ total' = total
      BY <2>5 DEF DispatchMessage
    <3>2. \A v \in Worker : pc'[v] = "dec" <=> pc[v] = "dec"
      BY <2>5 DEF DispatchMessage
    <3> QED BY <3>1, <3>2, CountedSame
  <2>6. CASE EndMessage(w)
    <3>1. alloc' = alloc /\ total' = total
      BY <2>6 DEF EndMessage
    <3>2. \A v \in Worker : pc'[v] = "dec" <=> pc[v] = "dec"
      BY <2>6 DEF EndMessage, Release
    <3> QED BY <3>1, <3>2, CountedSame
  <2>7. CASE PushBack(w)
    <3>1. alloc' = alloc /\ total' = total
      BY <2>7 DEF PushBack
    <3>2. \A v \in Worker : pc'[v] = "dec" <=> pc[v] = "dec"
      BY <2>7 DEF PushBack
    <3> QED BY <3>1, <3>2, CountedSame
  <2> QED BY <1>1, <2>1, <2>2, <2>3, <2>4, <2>5, <2>6, <2>7 DEF Dispatch
<1>2. ASSUME NEW w \in Thread, Dispose(w) PROVE Counted'
  <2>1. CASE SetQuit(w)
    <3>1. alloc' = alloc /\ total' = total
      BY <2>1 DEF SetQuit
    <3>2. \A v \in Worker : pc'[v] = "dec" <=> pc[v] = "dec"
      BY <2>1 DEF SetQuit
    <3> QED BY <3>1, <3>2, CountedSame
  <2>2. CASE TrashMessage(w)
    <3>1. alloc' = alloc /\ total' = total
      BY <2>2 DEF TrashMessage
    <3>2. \A v \in Worker : pc'[v] = "dec" <=> pc[v] = "dec"
      BY <2>2 DEF TrashMessage
    <3> QED BY <3>1, <3>2, CountedSame
  <2>3. CASE EndTrash(w)
    <3>1. alloc' = alloc /\ total' = total
      BY <2>3 DEF EndTrash
    <3>2. \A v \in Worker : pc'[v] = "dec" <=> pc[v] = "dec"
      BY <2>3 DEF EndTrash, Release
    <3> QED BY <3>1, <3>2, CountedSame
  <2>4. ASSUME NEW x \in Cell, Finalize(w, x) PROVE Counted'
    <3>1. alloc' = alloc /\ total' = total
      BY <2>4 DEF Finalize
    <3>2. \A v \in Worker : pc'[v] = "dec" <=> pc[v] = "dec"
      BY <2>4 DEF Finalize
    <3> QED BY <3>1, <3>2, CountedSame
  <2>5. CASE EndClosing(w)
    <3>1. alloc' = alloc /\ total' = total
      BY <2>5 DEF EndClosing
    <3>2. \A v \in Worker : pc'[v] = "dec" <=> pc[v] = "dec"
      BY <2>5 DEF EndClosing
    <3> QED BY <3>1, <3>2, CountedSame
  <2>6. CASE EndFailing(w)
    <3>1. alloc' = alloc /\ total' = total
      BY <2>6 DEF EndFailing
    <3>2. \A v \in Worker : pc'[v] = "dec" <=> pc[v] = "dec"
      BY <2>6 DEF EndFailing
    <3> QED BY <3>1, <3>2, CountedSame
  <2>7. CASE Destroy(w)
    <3>1. Actor(w) \in alloc
      BY <2>7, Destroyed DEF Destroy
    <3>2. alloc' = alloc \ {Actor(w)} /\ total' = total /\ pc[w] # "dec"
          /\ \A v \in Worker : v # w => pc'[v] = pc[v]
      BY <2>7 DEF Destroy
    <3>3. Cardinality(alloc') = Cardinality(alloc) - 1
      <4>1. PICK c \in alloc : c = Actor(w)
        BY <3>1
      <4>2. IsFiniteSet(alloc) /\ Cardinality(alloc) \in Nat
        BY CountFacts
      <4>3. Cardinality(alloc \ {c}) = Cardinality(alloc) - 1
        BY <4>2, FS_RemoveElement
      <4> QED BY <3>2, <4>1, <4>3
    <3>4. w \notin Quitters /\ Quitters' \subseteq Quitters \union {w}
      BY <3>2 DEF Quitters
    <3>5. Cardinality(Quitters') \in Nat /\ Cardinality(Quitters') <= Cardinality(Quitters) + 1
      <4>1. IsFiniteSet(Quitters \union {w}) /\ Cardinality(Quitters \union {w}) = Cardinality(Quitters) + 1
        BY <3>4, CountFacts, FS_AddElement
      <4> QED BY <3>4, <4>1, FS_Subset, FS_CardinalityType
    <3>6. total' >= Cardinality(alloc') + Cardinality(Quitters')
      BY <3>2, <3>3, <3>5, CountFacts
    <3> QED BY <3>6 DEF Counted, Quitters
  <2>8. CASE Decrement(w)
    <3>1. alloc' = alloc /\ total' = total - 1 /\ pc[w] = "dec" /\ pc' = [pc EXCEPT ![w] = "idle"]
      BY <2>8 DEF Decrement, globalmq_dec
    <3>2. w \in Worker
      BY <3>1 DEF Phases
    <3>3. w \in Quitters /\ Quitters' = Quitters \ {w}
      BY <3>1, <3>2 DEF Quitters
    <3>4. Cardinality(Quitters') = Cardinality(Quitters) - 1
      BY <3>3, CountFacts, FS_RemoveElement
    <3>5. total' >= Cardinality(alloc') + Cardinality(Quitters')
      BY <3>1, <3>4, CountFacts
    <3> QED BY <3>5 DEF Counted, Quitters
  <2> QED BY <1>2, <2>1, <2>2, <2>3, <2>4, <2>5, <2>6, <2>7, <2>8 DEF Dispose
<1>3. ASSUME NEW w \in Thread, Loading(w) PROVE Counted'
  <2>1. CASE EndLoad(w)
    <3>1. alloc' = alloc /\ total' = total
      BY <2>1 DEF EndLoad
    <3>2. \A v \in Worker : pc'[v] = "dec" <=> pc[v] = "dec"
      BY <2>1 DEF EndLoad, Caller
    <3> QED BY <3>1, <3>2, CountedSame
  <2>2. CASE FailLoad(w)
    <3>1. alloc' = alloc /\ total' = total
      BY <2>2 DEF FailLoad
    <3>2. \A v \in Worker : pc'[v] = "dec" <=> pc[v] = "dec"
      BY <2>2 DEF FailLoad
    <3> QED BY <3>1, <3>2, CountedSame
  <2> QED BY <1>3, <2>1, <2>2 DEF Loading
<1>4. ASSUME NEW w \in Thread, Call(w) PROVE Counted'
  <2>1. ASSUME NEW x \in Cell, NEW msg \in Message, Send(w, x, msg) PROVE Counted'
    <3>1. alloc' = alloc /\ total' = total
      BY <2>1 DEF Send
    <3>2. \A v \in Worker : pc'[v] = "dec" <=> pc[v] = "dec"
      BY <2>1 DEF Send
    <3> QED BY <3>1, <3>2, CountedSame
  <2>2. ASSUME NEW x \in Cell, FailToPack(w, x) PROVE Counted'
    <3>1. alloc' = alloc /\ total' = total
      BY <2>2 DEF FailToPack
    <3>2. \A v \in Worker : pc'[v] = "dec" <=> pc[v] = "dec"
      BY <2>2 DEF FailToPack
    <3> QED BY <3>1, <3>2, CountedSame
  <2>3. ASSUME NEW x \in Cell, Collect(w, x) PROVE Counted'
    <3>1. alloc' = alloc /\ total' = total
      BY <2>3 DEF Collect
    <3>2. \A v \in Worker : pc'[v] = "dec" <=> pc[v] = "dec"
      BY <2>3 DEF Collect
    <3> QED BY <3>1, <3>2, CountedSame
  <2>4. ASSUME NEW x \in Cell, Kill(w, x) PROVE Counted'
    <3>1. alloc' = alloc /\ total' = total
      BY <2>4 DEF Kill
    <3>2. \A v \in Worker : pc'[v] = "dec" <=> pc[v] = "dec"
      BY <2>4 DEF Kill
    <3> QED BY <3>1, <3>2, CountedSame
  <2>5. ASSUME NEW n \in Cell, Launch(w, n) PROVE Counted'
    <3>1. alloc' = alloc \union {n} /\ n \notin alloc /\ total' = total + 1
      BY <2>5 DEF Launch, globalmq_inc
    <3>2. Quitters' = Quitters
      <4>1. \A v \in Worker : pc'[v] = "dec" <=> pc[v] = "dec"
        BY <2>5 DEF Launch, InLua
      <4> QED BY <4>1 DEF Quitters
    <3>3. Cardinality(alloc') = Cardinality(alloc) + 1
      BY <3>1, CountFacts, FS_AddElement
    <3>4. total' >= Cardinality(alloc') + Cardinality(Quitters')
      <4>1. total \in Nat /\ Cardinality(alloc) \in Nat /\ Cardinality(Quitters) \in Nat
            /\ total >= Cardinality(alloc) + Cardinality(Quitters)
        BY CountFacts
      <4>2. Cardinality(Quitters') = Cardinality(Quitters)
        BY <3>2
      <4>3. total' = total + 1
        BY <3>1
      <4> HIDE DEF IInv, TypeOK, Quitters
      <4> QED BY <3>3, <4>1, <4>2, <4>3
    <3> QED BY <3>4 DEF Counted, Quitters
  <2> QED BY <1>4, <2>1, <2>2, <2>3, <2>4, <2>5 DEF Call
<1>5. ASSUME NEW w \in Worker, EndRound(w) PROVE Counted'
  <2>1. alloc' = alloc /\ total' = total
    BY <1>5 DEF EndRound
  <2>2. \A v \in Worker : pc'[v] = "dec" <=> pc[v] = "dec"
    BY <1>5 DEF EndRound
  <2> QED BY <2>1, <2>2, CountedSame
<1>6. CASE StartThreads
  <2>1. alloc' = alloc /\ total' = total
    BY <1>6 DEF StartThreads
  <2>2. \A v \in Worker : pc'[v] = "dec" <=> pc[v] = "dec"
    BY <1>6 DEF StartThreads, Phases, Booting
  <2> QED BY <2>1, <2>2, CountedSame
<1>7. CASE Tick
  <2>1. alloc' = alloc /\ total' = total
    BY <1>7 DEF Tick
  <2>2. \A v \in Worker : pc'[v] = "dec" <=> pc[v] = "dec"
    BY <1>7 DEF Tick
  <2> QED BY <2>1, <2>2, CountedSame
<1>8. CASE Return
  <2>1. alloc' = alloc /\ total' = total
    BY <1>8 DEF Return
  <2>2. \A v \in Worker : pc'[v] = "dec" <=> pc[v] = "dec"
    BY <1>8 DEF Return
  <2> QED BY <2>1, <2>2, CountedSame
<1>9. CASE StopTimer \/ Stopped \/ UNCHANGED vars
  <2>1. alloc' = alloc /\ total' = total /\ pc' = pc
    BY <1>9 DEF StopTimer, Stopped, vars
  <2> QED BY <2>1, CountedSame
<1> QED BY <1>1, <1>2, <1>3, <1>4, <1>5, <1>6, <1>7, <1>8, <1>9 DEF Next

-----------------------------------------------------------------------------
(* The inductive invariant *)

\* The counts of the next state are again natural numbers, and those of RefAccounting.
LEMMA CountsStep ==
  ASSUME IInv, [Next]_vars
  PROVE  TypeOK' /\ RefAccounting'
<1>1. ThreadTypes' /\ QueueTypes' /\ StateTypes' /\ CountTypes' /\ Account' /\ Counted'
  BY ThreadTypesStep, QueueTypesStep, StateTypesStep, CountTypesStep, AccountStep, CountedStep
<1>2. ASSUME NEW c \in Cell
      PROVE  /\ ref'[c] \in Nat
             /\ (c \in alloc' => ref'[c] = Cardinality({d \in Cell : c \in map'[d]})
                  + Cardinality({d \in Cell : c \in dying'[d]})
                  + Cardinality(InMessages(c)')
                  + Cardinality({w \in Thread : Dispatching(w, c)'})
                  + leaked'[c])
  <2> DEFINE U == Cardinality(Holders(map', c))
             D == Cardinality(Holders(dying', c))
             P == Cardinality(Places(mq', c))
             R == Cardinality(Runs(c)')
  <2>1. ref'[c] = U + D + P + R + leaked'[c]
    BY <1>1 DEF Account
  <2>2. U \in Nat /\ D \in Nat
    BY HoldersFinite
  <2>3. mq' \in [Cell -> Seq(Message)] /\ leaked'[c] \in Nat
    BY <1>1 DEF QueueTypes, CountTypes
  <2>4. P \in Nat
    BY <2>3, PlacesFinite
  <2>5. R \in Nat
    <3>1. IsFiniteSet(Thread)
      BY ThreadAssumption, FS_Singleton, FS_Union DEF Thread
    <3>2. Runs(c)' \subseteq Thread
      BY DEF Runs
    <3> QED BY <3>1, <3>2, FS_Subset, FS_CardinalityType
  <2>6. /\ U = Cardinality({d \in Cell : c \in map'[d]})
        /\ D = Cardinality({d \in Cell : c \in dying'[d]})
        /\ P = Cardinality(InMessages(c)')
        /\ R = Cardinality({w \in Thread : Dispatching(w, c)'})
    BY DEF Holders, Places, InMessages, Runs
  <2> HIDE DEF U, D, P, R
  <2>7. ref'[c] \in Nat
    BY <2>1, <2>2, <2>3, <2>4, <2>5
  <2> QED BY <2>1, <2>6, <2>7
<1>3. ref' \in [Cell -> Nat]
  BY <1>1, <1>2 DEF CountTypes
<1>4. total' \in Nat
  <2>1. /\ IsFiniteSet(alloc') /\ Cardinality(alloc') \in Nat
        /\ Cardinality({w \in Worker : pc'[w] = "dec"}) \in Nat
    BY <1>1, CellAssumption, ThreadAssumption, FS_Subset, FS_CardinalityType DEF StateTypes
  <2>2. total' \in Int /\ total' >= Cardinality(alloc') + Cardinality({w \in Worker : pc'[w] = "dec"})
    BY <1>1 DEF CountTypes, Counted
  <2> QED BY <2>1, <2>2
<1>5. TypeOK'
  BY <1>1, <1>3, <1>4 DEF TypeOK, ThreadTypes, QueueTypes, StateTypes, CountTypes
<1>6. RefAccounting'
  BY <1>1, <1>2 DEF RefAccounting, StateTypes
<1> QED BY <1>5, <1>6

\* The invariant is inductive.
LEMMA InductiveStep ==
  ASSUME IInv, [Next]_vars
  PROVE  IInv'
<1>1. TypeOK' /\ RefAccounting' /\ Phases' /\ Apart' /\ Free' /\ SystemOpen' /\ Counted'
  BY CountsStep, PhasesStep, ApartStep, FreeStep, SystemOpenStep, CountedStep
<1>2. States'
  BY KeepsOwnStep, ClosedIsEmptyStep, OwnNotDyingStep, ClosedIsMarkedStep, TrashIsClosedStep,
     LoadIsOpenStep, QueueIsServedStep DEF States
<1>3. Unreferenced'
  BY ZeroesStep, DestroyingStep DEF Zeroes, Destroying, Unreferenced
<1>4. Unshared'
  BY UnsharedStep
<1>5. NoDangling'
  <2>1. DataAllocated' /\ RingAllocated' /\ ThreadsAllocated'
    BY DataStep, RingStep, ThreadsStep
  <2>2. timer' = "ticking" \/ pc'[main] = "join" => system \in alloc'
    BY <1>1 DEF SystemOpen, Phases
  <2> QED BY <2>1, <2>2 DEF NoDangling, DataAllocated, RingAllocated, ThreadsAllocated
<1> QED BY <1>1, <1>2, <1>3, <1>4, <1>5 DEF IInv

\* It holds initially.
LEMMA InitInductive ==
  ASSUME Init
  PROVE  IInv
<1> USE ThreadAssumption, CellAssumption DEF Init
<1>1. TypeOK
  BY DEF TypeOK, Thread, Location
<1>2. Phases /\ Apart
  BY DEF Phases, Apart, Booting, Thread
<1>3. Free /\ SystemOpen
  BY DEF Free, SystemOpen, Booting
<1>4. States
  <2>1. \A w \in Worker : pc[w] = "unborn"
    BY DEF Thread
  <2>2. KeepsOwn /\ ClosedIsEmpty /\ OwnNotDying /\ QueueIsServed
    BY DEF KeepsOwn, ClosedIsEmpty, OwnNotDying, QueueIsServed
  <2>3. ClosedIsMarked /\ TrashIsClosed /\ LoadIsOpen
    BY <2>1 DEF ClosedIsMarked, TrashIsClosed, LoadIsOpen, Thread
  <2> QED BY <2>2, <2>3 DEF States
<1>5. Unreferenced /\ Unshared
  BY DEF Unreferenced, Unshared, Thread
<1>6. Counted
  <2>1. Quitters = {} /\ alloc = {system} /\ total = 1
    BY DEF Quitters, Thread
  <2>2. Cardinality({system}) = 1 /\ Cardinality({}) = 0
    BY FS_EmptySet, FS_Singleton
  <2> HIDE DEF Init
  <2>3. total >= Cardinality(alloc) + Cardinality(Quitters)
    BY <2>1, <2>2
  <2> QED BY <2>3 DEF Counted, Quitters
<1>7. RefAccounting
  <2>1. /\ Holders(map, system) = {system} /\ Holders(dying, system) = {}
        /\ ref[system] = 1 /\ leaked[system] = 0 /\ \A c \in alloc : c = system
    BY DEF Holders
  <2>2. InMessages(system) = {} /\ Runs(system) = {}
    BY DEF InMessages, Runs, Dispatching, Thread
  <2>3. Cardinality({system}) = 1 /\ Cardinality({}) = 0
    BY FS_EmptySet, FS_Singleton
  <2> HIDE DEF Init
  <2>4. ref[system] = Cardinality(Holders(map, system)) + Cardinality(Holders(dying, system))
                      + Cardinality(InMessages(system)) + Cardinality(Runs(system))
                      + leaked[system]
    BY <2>1, <2>2, <2>3
  <2>5. /\ Holders(map, system) = {d \in Cell : system \in map[d]}
        /\ Holders(dying, system) = {d \in Cell : system \in dying[d]}
        /\ Runs(system) = {w \in Thread : Dispatching(w, system)}
    BY DEF Holders, Runs
  <2>6. ref[system] = Cardinality({d \in Cell : system \in map[d]})
                      + Cardinality({d \in Cell : system \in dying[d]})
                      + Cardinality(InMessages(system))
                      + Cardinality({w \in Thread : Dispatching(w, system)})
                      + leaked[system]
    BY <2>4, <2>5
  <2> SUFFICES ASSUME NEW c \in alloc
               PROVE  ref[c] = Cardinality({d \in Cell : c \in map[d]})
                               + Cardinality({d \in Cell : c \in dying[d]})
                               + Cardinality(InMessages(c))
                               + Cardinality({w \in Thread : Dispatching(w, c)})
                               + leaked[c]
    BY DEF RefAccounting
  <2>7. c = system
    BY <2>1
  <2> QED BY <2>6, <2>7
<1>8. NoDangling
  BY DEF NoDangling, ToSet, Thread
<1> QED BY <1>1, <1>2, <1>3, <1>4, <1>5, <1>6, <1>7, <1>8 DEF IInv

\* The invariant holds of every behaviour, for every number of cells and workers and
\* every bound of the model, whatever main chunks have sent before they fail.
THEOREM Invariance ==
  Spec => []IInv
<1>1. Init => IInv
  BY InitInductive
<1>2. IInv /\ [Next]_vars => IInv'
  BY InductiveStep
<1> QED BY <1>1, <1>2, PTL DEF Spec

\* The variables keep their types; in particular no count goes below zero.
THEOREM TypeCorrect ==
  Spec => []TypeOK
<1>1. IInv => TypeOK
  BY DEF IInv
<1> QED BY <1>1, Invariance, PTL

\* A reference count is the number of userdata, packed messages, dispatches and failed
\* data_packs that refer to the cell: cell_grab and cell_release are called in pairs.
THEOREM CountsAreExact ==
  Spec => []RefAccounting
<1>1. IInv => RefAccounting
  BY DEF IInv
<1> QED BY <1>1, Invariance, PTL

\* Nothing that a thread, a Lua state, a message or the ring refers to has been freed:
\* cell_destroy never runs too early.
THEOREM NothingDangles ==
  Spec => []NoDangling
<1>1. IInv => NoDangling
  BY DEF IInv
<1> QED BY <1>1, Invariance, PTL

\* An assertion of cell_destroy fails only in the error path of cell_new, and it is the
\* one on the count: the references that are left are in messages of the cell that failed
\* to load to itself and to the system cell.
THEOREM AssertFailsOnlyLoading == Spec => []AssertFailsOnlyInLoad
<1>1. IInv => AssertFailsOnlyInLoad
  <2> SUFFICES ASSUME IInv, NEW w \in Thread, pc[w] = "destroy", zero[w] = NoCell, ~Asserted(w)
               PROVE  /\ FailedToLoad(w) /\ ~L[Actor(w)]
                      /\ new[w] # NoCell => \A d \in Cell :
                           /\ new[w] \notin map[d] \union dying[d]
                           /\ d \notin {new[w], system} =>
                                \A i \in DOMAIN mq[d] : new[w] \notin mq[d][i]
    BY DEF AssertFailsOnlyInLoad
  <2>1. Actor(w) \in Cell /\ ~L[Actor(w)] /\ map[Actor(w)] = {} /\ dying[Actor(w)] = {}
    BY ActorType, Emptied DEF IInv, Unreferenced
  <2>2. FailedToLoad(w)
    BY <2>1 DEF IInv, Unreferenced, Asserted
  <2>3. ASSUME new[w] # NoCell
        PROVE  \A d \in Cell :
                 /\ new[w] \notin map[d] \union dying[d]
                 /\ d \notin {new[w], system} => \A i \in DOMAIN mq[d] : new[w] \notin mq[d][i]
    BY <2>1, <2>3 DEF IInv, Unshared, Actor
  <2> QED BY <2>1, <2>2, <2>3
<1> QED BY <1>1, Invariance, PTL

\* trash_msg's comment is right: no message comes in once close is set and the queue has
\* been emptied.
THEOREM NoMessageStranded ==
  Spec => []NothingStranded
<1>1. IInv => NothingStranded
  BY DEF IInv, States, QueueIsServed, NothingStranded, Thread
<1> QED BY <1>1, Invariance, PTL

\* A reference that nobody can give back keeps its cell for ever.
THEOREM LeaksLast ==
  Spec => []LeakIsForEver
<1>1. IInv => LeakIsForEver
  <2> SUFFICES ASSUME IInv, NEW c \in Cell, leaked[c] > 0
               PROVE  c \in alloc /\ ~quit[c]
    BY DEF LeakIsForEver
  <2>1. ref[c] > 0
    BY Referenced
  <2> QED BY <2>1 DEF IInv, Free, Unreferenced
<1> QED BY <1>1, Invariance, PTL

\* A thread at work that does not stop.
LEMMA StillWorking ==
  ASSUME Worker # {}, IInv, NEW w \in Thread,
         pc[w] \notin {"unborn", "join", "returned", "done"}, pc'[w] # "done",
         \A v \in Thread \ {w} : pc'[v] = pc[v]
  PROVE  StopsOnlyWhenDone'
<1>1. CASE w \in Worker
  BY <1>1 DEF StopsOnlyWhenDone
<1>2. CASE w = main
  <2>1. Booting
    BY <1>2 DEF IInv, Phases, Booting
  <2>2. PICK v \in Worker : pc[v] = "unborn"
    BY <2>1 DEF IInv, Phases
  <2>3. v \in Thread /\ v # w
    BY <1>2, ThreadAssumption DEF Thread
  <2> QED BY <2>2, <2>3 DEF StopsOnlyWhenDone
<1> QED BY <1>1, <1>2 DEF Thread

\* The last worker to stop has found total down to one: the system cell.
LEMMA StopsStep ==
  ASSUME Worker # {}, IInv, StopsOnlyWhenDone, [Next]_vars
  PROVE  StopsOnlyWhenDone'
<1> USE ThreadAssumption, CellAssumption
<1> USE DEF IInv, TypeOK, Thread, At, Goto, threads, cells
<1>1. ASSUME NEW w \in Thread, Dispatch(w) PROVE StopsOnlyWhenDone'
  <2>1. CASE Take(w)
    <3>1. /\ pc[w] \notin {"unborn", "join", "returned", "done"} /\ pc'[w] # "done"
          /\ \A v \in Thread \ {w} : pc'[v] = pc[v]
      BY <2>1 DEF Take
    <3> QED BY <3>1, StillWorking
  <2>2. CASE DispatchQuit(w)
    <3>1. /\ pc[w] \notin {"unborn", "join", "returned", "done"} /\ pc'[w] # "done"
          /\ \A v \in Thread \ {w} : pc'[v] = pc[v]
      BY <2>2 DEF DispatchQuit
    <3> QED BY <3>1, StillWorking
  <2>3. CASE DispatchClose(w)
    <3>1. /\ pc[w] \notin {"unborn", "join", "returned", "done"} /\ pc'[w] # "done"
          /\ \A v \in Thread \ {w} : pc'[v] = pc[v]
      BY <2>3 DEF DispatchClose
    <3> QED BY <3>1, StillWorking
  <2>4. CASE DispatchEmpty(w)
    <3>1. /\ pc[w] \notin {"unborn", "join", "returned", "done"} /\ pc'[w] # "done"
          /\ \A v \in Thread \ {w} : pc'[v] = pc[v]
      BY <2>4 DEF DispatchEmpty
    <3> QED BY <3>1, StillWorking
  <2>5. CASE DispatchMessage(w)
    <3>1. /\ pc[w] \notin {"unborn", "join", "returned", "done"} /\ pc'[w] # "done"
          /\ \A v \in Thread \ {w} : pc'[v] = pc[v]
      BY <2>5 DEF DispatchMessage
    <3> QED BY <3>1, StillWorking
  <2>6. CASE EndMessage(w)
    <3>1. /\ pc[w] \notin {"unborn", "join", "returned", "done"} /\ pc'[w] # "done"
          /\ \A v \in Thread \ {w} : pc'[v] = pc[v]
      BY <2>6 DEF EndMessage
    <3> QED BY <3>1, StillWorking
  <2>7. CASE PushBack(w)
    <3>1. /\ pc[w] \notin {"unborn", "join", "returned", "done"} /\ pc'[w] # "done"
          /\ \A v \in Thread \ {w} : pc'[v] = pc[v]
      BY <2>7 DEF PushBack
    <3> QED BY <3>1, StillWorking
  <2> QED BY <1>1, <2>1, <2>2, <2>3, <2>4, <2>5, <2>6, <2>7 DEF Dispatch
<1>2. ASSUME NEW w \in Thread, Dispose(w) PROVE StopsOnlyWhenDone'
  <2>1. CASE SetQuit(w)
    <3>1. /\ pc[w] \notin {"unborn", "join", "returned", "done"} /\ pc'[w] # "done"
          /\ \A v \in Thread \ {w} : pc'[v] = pc[v]
      BY <2>1 DEF SetQuit, Phases
    <3> QED BY <3>1, StillWorking
  <2>2. CASE TrashMessage(w)
    <3>1. /\ pc[w] \notin {"unborn", "join", "returned", "done"} /\ pc'[w] # "done"
          /\ \A v \in Thread \ {w} : pc'[v] = pc[v]
      BY <2>2 DEF TrashMessage
    <3> QED BY <3>1, StillWorking
  <2>3. CASE EndTrash(w)
    <3>1. /\ pc[w] \notin {"unborn", "join", "returned", "done"} /\ pc'[w] # "done"
          /\ \A v \in Thread \ {w} : pc'[v] = pc[v]
      BY <2>3 DEF EndTrash
    <3> QED BY <3>1, StillWorking
  <2>4. ASSUME NEW x \in Cell, Finalize(w, x) PROVE StopsOnlyWhenDone'
    <3>1. /\ pc[w] \notin {"unborn", "join", "returned", "done"} /\ pc'[w] # "done"
          /\ \A v \in Thread \ {w} : pc'[v] = pc[v]
      BY <2>4 DEF Finalize, InLua, Closing
    <3> QED BY <3>1, StillWorking
  <2>5. CASE EndClosing(w)
    <3>1. /\ pc[w] \notin {"unborn", "join", "returned", "done"} /\ pc'[w] # "done"
          /\ \A v \in Thread \ {w} : pc'[v] = pc[v]
      BY <2>5 DEF EndClosing
    <3> QED BY <3>1, StillWorking
  <2>6. CASE EndFailing(w)
    <3>1. /\ pc[w] \notin {"unborn", "join", "returned", "done"} /\ pc'[w] # "done"
          /\ \A v \in Thread \ {w} : pc'[v] = pc[v]
      BY <2>6 DEF EndFailing
    <3> QED BY <3>1, StillWorking
  <2>7. CASE Destroy(w)
    <3>1. /\ pc[w] \notin {"unborn", "join", "returned", "done"} /\ pc'[w] # "done"
          /\ \A v \in Thread \ {w} : pc'[v] = pc[v]
      BY <2>7 DEF Destroy, Caller
    <3> QED BY <3>1, StillWorking
  <2>8. CASE Decrement(w)
    <3>1. /\ pc[w] \notin {"unborn", "join", "returned", "done"} /\ pc'[w] # "done"
          /\ \A v \in Thread \ {w} : pc'[v] = pc[v]
      BY <2>8 DEF Decrement
    <3> QED BY <3>1, StillWorking
  <2> QED BY <1>2, <2>1, <2>2, <2>3, <2>4, <2>5, <2>6, <2>7, <2>8 DEF Dispose
<1>3. ASSUME NEW w \in Thread, Loading(w) PROVE StopsOnlyWhenDone'
  <2>1. CASE EndLoad(w)
    <3>1. /\ pc[w] \notin {"unborn", "join", "returned", "done"} /\ pc'[w] # "done"
          /\ \A v \in Thread \ {w} : pc'[v] = pc[v]
      BY <2>1 DEF EndLoad, Caller
    <3> QED BY <3>1, StillWorking
  <2>2. CASE FailLoad(w)
    <3>1. /\ pc[w] \notin {"unborn", "join", "returned", "done"} /\ pc'[w] # "done"
          /\ \A v \in Thread \ {w} : pc'[v] = pc[v]
      BY <2>2 DEF FailLoad
    <3> QED BY <3>1, StillWorking
  <2> QED BY <1>3, <2>1, <2>2 DEF Loading
<1>4. ASSUME NEW w \in Thread, Call(w) PROVE StopsOnlyWhenDone'
  <2>1. ASSUME NEW x \in Cell, NEW msg \in Message, Send(w, x, msg) PROVE StopsOnlyWhenDone'
    <3>1. /\ pc[w] \notin {"unborn", "join", "returned", "done"} /\ pc'[w] # "done"
          /\ \A v \in Thread \ {w} : pc'[v] = pc[v]
      BY <2>1 DEF Send, InLua
    <3> QED BY <3>1, StillWorking
  <2>2. ASSUME NEW x \in Cell, FailToPack(w, x) PROVE StopsOnlyWhenDone'
    <3>1. /\ pc[w] \notin {"unborn", "join", "returned", "done"} /\ pc'[w] # "done"
          /\ \A v \in Thread \ {w} : pc'[v] = pc[v]
      BY <2>2 DEF FailToPack, InLua
    <3> QED BY <3>1, StillWorking
  <2>3. ASSUME NEW x \in Cell, Collect(w, x) PROVE StopsOnlyWhenDone'
    <3>1. /\ pc[w] \notin {"unborn", "join", "returned", "done"} /\ pc'[w] # "done"
          /\ \A v \in Thread \ {w} : pc'[v] = pc[v]
      BY <2>3 DEF Collect, InLua
    <3> QED BY <3>1, StillWorking
  <2>4. ASSUME NEW x \in Cell, Kill(w, x) PROVE StopsOnlyWhenDone'
    <3>1. /\ pc[w] \notin {"unborn", "join", "returned", "done"} /\ pc'[w] # "done"
          /\ \A v \in Thread \ {w} : pc'[v] = pc[v]
      BY <2>4 DEF Kill, InLua
    <3> QED BY <3>1, StillWorking
  <2>5. ASSUME NEW n \in Cell, Launch(w, n) PROVE StopsOnlyWhenDone'
    <3>1. /\ pc[w] \notin {"unborn", "join", "returned", "done"} /\ pc'[w] # "done"
          /\ \A v \in Thread \ {w} : pc'[v] = pc[v]
      BY <2>5 DEF Launch, InLua
    <3> QED BY <3>1, StillWorking
  <2> QED BY <1>4, <2>1, <2>2, <2>3, <2>4, <2>5 DEF Call
<1>5. ASSUME NEW w \in Worker, EndRound(w) PROVE StopsOnlyWhenDone'
  <2>1. w \in Thread /\ pc[w] = "idle" /\ alloc' = alloc /\ (total <= 1 \/ pc'[w] # "done")
    BY <1>5 DEF EndRound, Thread
  <2>2. CASE pc'[w] # "done"
    BY <2>2 DEF StopsOnlyWhenDone
  <2>3. CASE total <= 1
    <3>1. system \in alloc
      BY <2>1 DEF Phases, Booting, SystemOpen
    <3>2. Cardinality(alloc) <= 1 /\ IsFiniteSet(alloc) /\ Cardinality(alloc) \in Nat
      BY <2>3, CountFacts
    <3>3. Cardinality({system}) = 1 /\ {system} \subseteq alloc
      BY <3>1, FS_Singleton
    <3>4. {system} = alloc
      <4>1. Cardinality(alloc) # 0
        BY <3>1, <3>2, FS_EmptySet
      <4>2. Cardinality(alloc) = 1
        <5>1. PICK k \in Nat : k = Cardinality(alloc)
          BY <3>2
        <5>2. k <= 1 /\ k # 0
          BY <3>2, <4>1, <5>1
        <5>3. k = 1
          BY <5>2
        <5> QED BY <5>1, <5>3
      <4>3. PICK c : alloc = {c}
        BY <3>2, <4>2, FS_Singleton
      <4> QED BY <3>1, <4>3
    <3> QED BY <2>1, <3>4 DEF StopsOnlyWhenDone
  <2> QED BY <2>1, <2>2, <2>3
<1>6. CASE StartThreads
  <2>1. PICK v \in Worker : TRUE
    OBVIOUS
  <2>2. pc'[v] = "idle"
    BY <1>6 DEF StartThreads
  <2> QED BY <2>2 DEF StopsOnlyWhenDone
<1>7. CASE Tick
  <2>1. alloc' = alloc /\ pc' = pc
    BY <1>7 DEF Tick
  <2> QED BY <2>1 DEF StopsOnlyWhenDone
<1>8. CASE Return
  <2>1. alloc' = alloc /\ \A v \in Worker : pc[v] = "done"
    BY <1>8 DEF Return
  <2> QED BY <2>1 DEF StopsOnlyWhenDone
<1>9. CASE StopTimer \/ Stopped \/ UNCHANGED vars
  <2>1. alloc' = alloc /\ pc' = pc
    BY <1>9 DEF StopTimer, Stopped, vars
  <2> QED BY <2>1 DEF StopsOnlyWhenDone
<1> QED BY <1>1, <1>2, <1>3, <1>4, <1>5, <1>6, <1>7, <1>8, <1>9 DEF Next

\* The worker threads return, and scheduler_start with them, only when no cell but the
\* system cell is left.  With no worker at all, all of them are done from the start.
THEOREM StopWhenDone ==
  ASSUME Worker # {}
  PROVE  Spec => []StopsOnlyWhenDone
<1>1. Init => StopsOnlyWhenDone
  BY DEF Init, StopsOnlyWhenDone
<1>2. IInv /\ StopsOnlyWhenDone /\ [Next]_vars => StopsOnlyWhenDone'
  BY StopsStep
<1> QED BY <1>1, <1>2, Invariance, PTL DEF Spec
=============================================================================
