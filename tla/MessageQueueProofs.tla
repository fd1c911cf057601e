------------------------- MODULE MessageQueueProofs -------------------------
(***************************************************************************)
(* Proofs about MessageQueue, for every first capacity and every set of    *)
(* messages: its type invariant, that no slot is read before it is written *)
(* and that the ring implements a first-in first-out queue.                *)
(*                                                                         *)
(* The argument: IInv says that the slots from head to tail hold messages; *)
(* items reads them off in order.  A push that does not fill the ring adds *)
(* the slot of the tail, one that fills it copies the items in order, and  *)
(* a pop removes the slot of the head.                                     *)
(***************************************************************************)
EXTENDS MessageQueue, DataLemmas

\* Where the items are: Length slots, the head's first, the tail's next.
LEMMA Places ==
  ASSUME TypeOK
  PROVE  /\ Length \in 0 .. cap - 1
         /\ Length = 0 <=> head = tail
         /\ \A i \in 1 .. Length : SlotOf(i) \in 0 .. cap - 1 /\ SlotOf(i) # tail
         /\ \A i, j \in 1 .. Length : SlotOf(i) = SlotOf(j) => i = j
         /\ head # tail => SlotOf(1) = head
BY DEF TypeOK, Length, SlotOf

\* items is the sequence of the messages from head to tail.
LEMMA Items ==
  ASSUME IInv
  PROVE  /\ items \in Seq(Message)
         /\ Len(items) = Length
         /\ \A i \in 1 .. Length : items[i] = queue[SlotOf(i)]
<1>1. Length \in Nat
  BY Places DEF IInv
<1>2. items \in [1 .. Length -> Message]
  BY DEF IInv, Filled, items
<1>3. items \in Seq(Message)
  BY <1>1, <1>2
<1>4. Len(items) = Length
  <2>1. DOMAIN items = 1 .. Length
    BY <1>2
  <2> QED BY <1>1, <1>3, <2>1, LenProperties
<1> QED BY <1>3, <1>4 DEF items

\* A new ring is empty.
LEMMA InitInvariant == Init => IInv
BY QueueAssumption DEF Init, IInv, TypeOK, Filled, Length

\* An untouched queue keeps its items and the invariant.
LEMMA Idle ==
  ASSUME IInv, UNCHANGED <<cap, head, tail, queue>>,
         popped' \in Message \union {NoMessage}
  PROVE  IInv' /\ items' = items
BY DEF IInv, TypeOK, Filled, Length, SlotOf, items

\* A push appends its message, whether the ring has room or has to grow.
LEMMA PushStep ==
  ASSUME IInv, NEW m \in Message, Push(m)
  PROVE  IInv' /\ items' = Append(items, m)
<1> USE QueueAssumption
<1> DEFINE q == [queue EXCEPT ![tail] = m]
<1>1. TypeOK /\ Filled
  BY DEF IInv
<1>0. PICK n \in Nat : n = Length
  BY <1>1, Places
<1>2. n \in 0 .. cap - 1 /\ \A i \in 1 .. n : SlotOf(i) \in 0 .. cap - 1 /\ SlotOf(i) # tail
  BY <1>0, <1>1, Places
<1>3. q \in [0 .. cap - 1 -> Message \union {NoMessage}]
  BY <1>1 DEF TypeOK
<1>4. q[tail] = m /\ \A i \in 1 .. n : q[SlotOf(i)] = queue[SlotOf(i)]
  BY <1>1, <1>2 DEF TypeOK
<1>5. SUFFICES /\ TypeOK'
               /\ Length' = n + 1
               /\ \A i \in 1 .. n : queue'[SlotOf(i)'] = queue[SlotOf(i)]
               /\ queue'[SlotOf(n + 1)'] = m
  <2>1. Filled'
    <3>1. SUFFICES ASSUME NEW i \in 1 .. Length' PROVE queue'[SlotOf(i)'] \in Message
      BY DEF Filled
    <3>2. i \in 1 .. n \/ i = n + 1
      BY <1>2, <1>5
    <3>3. CASE i \in 1 .. n
      BY <1>0, <1>1, <1>5, <3>3 DEF Filled
    <3>4. CASE i = n + 1
      BY <1>5, <3>4
    <3> QED BY <3>2, <3>3, <3>4
  <2>2. IInv'
    BY <1>5, <2>1 DEF IInv
  <2>3. /\ items' \in Seq(Message) /\ Len(items') = n + 1
        /\ \A i \in 1 .. n + 1 : items'[i] = queue'[SlotOf(i)']
    <3>1. n + 1 \in Nat
      BY <1>2
    <3>2. items' = [i \in 1 .. n + 1 |-> queue'[SlotOf(i)']]
      BY <1>5 DEF items
    <3>3. items' \in [1 .. n + 1 -> Message]
      BY <1>5, <2>1, <3>2 DEF Filled
    <3>4. items' \in Seq(Message)
      BY <3>1, <3>3
    <3> QED BY <3>1, <3>2, <3>3, <3>4, LenProperties
  <2>4. /\ items \in Seq(Message) /\ Len(items) = n
        /\ \A i \in 1 .. n : items[i] = queue[SlotOf(i)]
    BY <1>0, Items
  <2>5. /\ Append(items, m) \in Seq(Message) /\ Len(Append(items, m)) = n + 1
        /\ \A i \in 1 .. n : Append(items, m)[i] = items[i]
        /\ Append(items, m)[n + 1] = m
    BY <2>4, AppendProperties
  <2>6. \A i \in 1 .. n + 1 : items'[i] = Append(items, m)[i]
    BY <1>2, <1>5, <2>3, <2>4, <2>5
  <2> QED BY <2>2, <2>3, <2>5, <2>6, SeqEqual
<1>6. CASE head = NextSlot(tail)
  <2>1. /\ queue' = Unfolded(q) /\ head' = 0 /\ tail' = cap /\ cap' = 2 * cap
        /\ popped' = popped
    BY <1>6 DEF Push
  <2>2. n = cap - 1 /\ SlotOf(n + 1) = tail
    BY <1>0, <1>1, <1>6 DEF TypeOK, NextSlot, Length, SlotOf
  <2>3. \A i \in 1 .. cap : queue'[i - 1] = q[SlotOf(i)]
    <3>1. SUFFICES ASSUME NEW i \in 1 .. cap PROVE queue'[i - 1] = q[SlotOf(i)]
      OBVIOUS
    <3>2. i - 1 \in 0 .. 2 * cap - 1 /\ i - 1 < cap /\ head + (i - 1) \in Nat /\ head + (i - 1) < 2 * cap
      BY <1>1 DEF TypeOK
    <3> DEFINE k == head + (i - 1)
    <3>3. cap \in Nat \ {0} /\ k \in Nat /\ k < 2 * cap
      BY <1>1, <3>2 DEF TypeOK
    <3>4. k % cap = IF k < cap THEN k ELSE k - cap
      <4> HIDE DEF k
      <4> QED BY <3>3, Remainder
    <3>5. (head + (i - 1)) % cap = SlotOf(i)
      BY <1>1, <3>4 DEF TypeOK, SlotOf
    <3> QED BY <2>1, <3>2, <3>5 DEF Unfolded
  <2>4. TypeOK'
    <3>1. queue' \in [0 .. cap' - 1 -> Message \union {NoMessage}]
      <4>1. \A s \in 0 .. 2 * cap - 1 : s < cap => q[(head + s) % cap] \in Message \union {NoMessage}
        BY <1>1, <1>3 DEF TypeOK
      <4> QED BY <2>1, <4>1 DEF Unfolded
    <3>2. /\ cap' \in Nat \ {0, 1}
          /\ head' \in 0 .. cap' - 1 /\ tail' \in 0 .. cap' - 1
          /\ popped' \in Message \union {NoMessage}
      BY <1>1, <2>1 DEF TypeOK
    <3> QED BY <3>1, <3>2 DEF TypeOK
  <2>5. Length' = n + 1
    BY <1>1, <2>1, <2>2 DEF TypeOK, Length
  <2>6. \A i \in 1 .. cap : SlotOf(i)' = i - 1
    BY <1>1, <2>1 DEF TypeOK, SlotOf
  <2>7. n + 1 = cap /\ n + 1 \in 1 .. cap /\ \A i \in 1 .. n : i \in 1 .. cap
    BY <1>1, <2>2 DEF TypeOK
  <2>8. \A i \in 1 .. n : queue'[SlotOf(i)'] = queue[SlotOf(i)]
    BY <1>4, <2>3, <2>6, <2>7
  <2>9. queue'[SlotOf(n + 1)'] = m
    <3>1. SlotOf(n + 1)' = n + 1 - 1
      BY <2>6, <2>7
    <3> QED BY <1>4, <2>2, <2>3, <2>7, <3>1
  <2> QED BY <2>4, <2>5, <2>8, <2>9
<1>7. CASE head # NextSlot(tail)
  <2>1. /\ queue' = q /\ tail' = NextSlot(tail)
        /\ UNCHANGED <<head, cap, popped>>
    BY <1>7 DEF Push
  <2>2. TypeOK'
    BY <1>1, <1>3, <2>1 DEF TypeOK, NextSlot
  <2>3. Length' = n + 1 /\ SlotOf(n + 1) = tail
    BY <1>0, <1>1, <1>7, <2>1 DEF TypeOK, NextSlot, Length, SlotOf
  <2>4. \A i \in 1 .. n + 1 : SlotOf(i)' = SlotOf(i)
    BY <2>1 DEF SlotOf
  <2> QED BY <1>2, <1>4, <2>1, <2>2, <2>3, <2>4
<1> QED BY <1>6, <1>7

\* A pop takes the oldest item.
LEMMA PopStep ==
  ASSUME IInv, Pop
  PROVE  /\ IInv'
         /\ items # <<>> /\ popped' = Head(items) /\ items' = Tail(items)
<1> DEFINE n == Length
<1>1. TypeOK /\ Filled
  BY DEF IInv
<1>2. n \in 1 .. cap - 1 /\ SlotOf(1) = head
  BY <1>1, Places DEF Pop
<1>3. TypeOK'
  BY <1>1, <1>2 DEF Pop, TypeOK, NextSlot, Filled
<1>4. Length' = n - 1
  BY <1>1 DEF Pop, TypeOK, NextSlot, Length
<1>5. \A i \in 1 .. n - 1 : SlotOf(i)' = SlotOf(i + 1)
  BY <1>1, <1>2 DEF Pop, TypeOK, NextSlot, SlotOf, Length
<1>6. Filled'
  BY <1>1, <1>2, <1>4, <1>5 DEF Filled, Pop
<1>7. IInv'
  BY <1>3, <1>6 DEF IInv
<1>8. /\ items \in Seq(Message) /\ Len(items) = n
      /\ \A i \in 1 .. n : items[i] = queue[SlotOf(i)]
  BY Items
<1>9. items # <<>> /\ Head(items) = queue[head]
  BY <1>2, <1>8
<1>10. /\ items' \in Seq(Message) /\ Len(items') = n - 1
       /\ \A i \in 1 .. n - 1 : items'[i] = queue[SlotOf(i + 1)]
  <2>1. n - 1 \in Nat
    BY <1>2
  <2>2. items' = [i \in 1 .. n - 1 |-> queue'[SlotOf(i)']]
    BY <1>4 DEF items
  <2>3. items' \in [1 .. n - 1 -> Message]
    BY <1>4, <1>6, <2>2 DEF Filled
  <2>4. items' \in Seq(Message)
    BY <2>1, <2>3
  <2>5. \A i \in 1 .. n - 1 : items'[i] = queue[SlotOf(i + 1)]
    BY <1>5, <2>2 DEF Pop
  <2> QED BY <2>1, <2>3, <2>4, <2>5, LenProperties
<1>11. /\ Tail(items) \in Seq(Message) /\ Len(Tail(items)) = n - 1
       /\ \A i \in 1 .. n - 1 : Tail(items)[i] = items[i + 1]
  BY <1>8, <1>9, HeadTailProperties
<1>12. \A i \in 1 .. n - 1 : items'[i] = Tail(items)[i]
  BY <1>2, <1>8, <1>10, <1>11
<1>13. items' = Tail(items)
  BY <1>10, <1>11, <1>12, SeqEqual
<1> QED BY <1>7, <1>9, <1>13 DEF Pop

\* A pop that finds nothing is right: head and tail meet in an empty ring only.
LEMMA PopEmptyStep ==
  ASSUME IInv, PopEmpty
  PROVE  IInv' /\ items = <<>> /\ popped' = NoMessage /\ items' = items
<1>1. Length = 0
  BY Places DEF IInv, PopEmpty
<1>2. items = <<>>
  BY <1>1, Items, EmptySeq
<1>3. IInv' /\ items' = items
  BY Idle DEF PopEmpty
<1> QED BY <1>2, <1>3 DEF PopEmpty

\* Every step keeps the invariant and is a step of Fifo, or a stutter.
LEMMA Step == IInv /\ [Next]_vars => IInv' /\ [Queue!Next]_(Queue!vars)
<1> SUFFICES ASSUME IInv, [Next]_vars
             PROVE  IInv' /\ [Queue!Next]_(Queue!vars)
  OBVIOUS
<1>1. CASE \E m \in Message : Push(m)
  <2>1. PICK m \in Message : Push(m)
    BY <1>1
  <2>2. IInv' /\ items' = Append(items, m) /\ popped' = popped
    BY <2>1, PushStep DEF Push
  <2> QED BY <2>2 DEF Queue!Next, Queue!Put
<1>2. CASE Pop
  BY <1>2, PopStep DEF Queue!Next, Queue!Get
<1>3. CASE PopEmpty
  BY <1>3, PopEmptyStep DEF Queue!Next, Queue!GetNothing
<1>4. CASE UNCHANGED vars
  BY <1>4, Idle DEF vars, IInv, TypeOK, Queue!vars
<1> QED BY <1>1, <1>2, <1>3, <1>4 DEF Next

\* The strengthened invariant holds throughout.
THEOREM Invariance == Spec => []IInv
<1>1. IInv /\ [Next]_vars => IInv'
  BY Step
<1> QED BY InitInvariant, <1>1, PTL DEF Spec

\* Type correctness: mq_push and mq_pop stay inside the ring's storage.
THEOREM TypeCorrect == Spec => []TypeOK
<1>1. IInv => TypeOK
  BY DEF IInv
<1> QED BY Invariance, <1>1, PTL

\* Every slot from head to tail was written: no pop reads what malloc left.
THEOREM AllFilled == Spec => []Filled
<1>1. IInv => Filled
  BY DEF IInv
<1> QED BY Invariance, <1>1, PTL

\* The queue of a cell implements Fifo: messages come out once, in order, and
\* there is always room for one more.
THEOREM Implementation == Spec => ImplementsFifo
<1>1. Init => Queue!Init
  <2>1. SUFFICES ASSUME Init PROVE Queue!Init
    OBVIOUS
  <2>2. Length = 0 /\ IInv
    BY <2>1, InitInvariant DEF Init, Length
  <2>3. items = <<>>
    BY <2>2, Items, EmptySeq
  <2> QED BY <2>1, <2>3 DEF Init, Queue!Init
<1>2. IInv /\ [Next]_vars => [Queue!Next]_(Queue!vars)
  BY Step
<1> QED BY Invariance, <1>1, <1>2, PTL DEF Spec, ImplementsFifo, Queue!Spec
=============================================================================
