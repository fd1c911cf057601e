-------------------------- MODULE GlobalQueueProofs --------------------------
(***************************************************************************)
(* Proofs about GlobalQueue: as long as no worker is lapped, the ring      *)
(* loses no cell, hands no cell to two workers, and a raised flag marks    *)
(* each slot in use, for every number of workers, cells, slots and pushes; *)
(* and it implements the line of RunQueue.                                 *)
(*                                                                         *)
(* The argument.  Every live cell is in one place (OnePlace, OnlyLive,     *)
(* NoCellLost), so at most Cardinality(Cell) tickets are queued: fewer     *)
(* than slots (Room), so queued tickets have distinct slots (Apart).  A    *)
(* pop reads its slot under a head it later confirms by compare-and-swap,  *)
(* so what it checked still holds then (Checked); and a raised flag cannot *)
(* be that of an earlier lap (Flags, Clearing).                            *)
(***************************************************************************)
EXTENDS GlobalQueue, FiniteSetTheorems, SequenceTheorems, TLAPS

(* The slot of a ticket is a slot of the ring. *)
LEMMA SlotOfTicket == \A k \in Nat : GP(k) \in Slot
  BY RingAssumption DEF GP, Slot

(* Two tickets less than a lap apart have different slots. *)
LEMMA Apart ==
  ASSUME NEW j \in Nat, NEW k \in Nat, j < k, k < j + MAX_GLOBAL_MQ
  PROVE  GP(j) # GP(k)
<1> DEFINE m == MAX_GLOBAL_MQ
           d == (k \div m) - (j \div m)
<1>1. /\ j = m * (j \div m) + GP(j)
      /\ k = m * (k \div m) + GP(k)
      /\ j \div m \in Nat /\ k \div m \in Nat
      /\ m \in Nat \ {0}
  BY RingAssumption DEF GP
<1>2. SUFFICES ASSUME GP(j) = GP(k) PROVE FALSE
  OBVIOUS
<1>3. GP(j) \in Nat
  BY SlotOfTicket, RingAssumption DEF Slot
<1>4. k - j = m * (k \div m) - m * (j \div m)
  BY <1>1, <1>2, <1>3
<1>5. k - j = m * d /\ d \in Int
  BY <1>1, <1>4
<1>6. d <= 0 \/ d >= 1
  BY <1>5
<1>7. CASE d <= 0
  <2>1. m * d <= 0
    BY <1>1, <1>5, <1>7
  <2> QED BY <2>1, <1>5
<1>8. CASE d >= 1
  <2>1. m * d >= m
    BY <1>1, <1>5, <1>8
  <2> QED BY <2>1, <1>5, <1>1
<1> QED BY <1>6, <1>7, <1>8

(* Fewer tickets are queued than the ring has slots: each queued ticket    *)
(* stands for a cell, and no cell stands under two tickets.                *)
LEMMA Room ==
  ASSUME TypeOK, Carried, Tickets, Flags, OnePlace
  PROVE  tail < head + MAX_GLOBAL_MQ
<1> DEFINE f == [k \in Queued |-> CHOOSE c \in Cell : Stands(k, c)]
<1>1. ASSUME NEW k \in Queued PROVE \E c \in Cell : Stands(k, c)
  <2>1. CASE Pending(k)
    <3>1. PICK w \in Worker : Draws(w, k)
      BY <2>1 DEF Pending
    <3>2. item[w] \in Cell
      BY <3>1 DEF Draws, Carried, Pushing
    <3> QED BY <3>1, <3>2 DEF Stands
  <2>2. CASE ~Pending(k)
    BY <2>2 DEF Flags, Stands
  <2> QED BY <2>1, <2>2
<1>2. \A k \in Queued : f[k] \in Cell /\ Stands(k, f[k])
  BY <1>1
<1>3. f \in Injection(Queued, Cell)
  <2>1. f \in [Queued -> Cell]
    BY <1>2
  <2>2. \A j, k \in Queued : f[j] = f[k] => j = k
    BY <1>2 DEF OnePlace
  <2> HIDE DEF f
  <2> QED BY <2>1, <2>2 DEF Injection, IsInjective
<1>4. Cardinality(Queued) <= Cardinality(Cell)
  <2> HIDE DEF f
  <2> QED BY <1>3, FS_Injection, CellAssumption
<1>5. Cardinality(Queued) = IF head > tail - 1 THEN 0 ELSE tail - head
  BY FS_Interval DEF Queued, TypeOK
<1>6. Cardinality(Cell) \in Nat
  BY CellAssumption, FS_CardinalityType
<1> QED BY <1>4, <1>5, <1>6, CellAssumption, RingAssumption DEF TypeOK, Tickets

(* Two queued tickets have different slots. *)
LEMMA QueuedApart ==
  ASSUME IInv, NEW j \in Queued, NEW k \in Queued, GP(j) = GP(k)
  PROVE  j = k
<1>1. tail < head + MAX_GLOBAL_MQ
  BY Room DEF IInv
<1>2. /\ head \in Nat /\ tail \in Nat /\ j \in Nat /\ k \in Nat
      /\ head <= j /\ head <= k /\ j < tail /\ k < tail
      /\ MAX_GLOBAL_MQ \in Nat
  BY RingAssumption DEF IInv, TypeOK, Queued
<1>3. j < k + MAX_GLOBAL_MQ /\ k < j + MAX_GLOBAL_MQ
  BY <1>1, <1>2
<1>4. CASE j < k
  BY Apart, <1>2, <1>3, <1>4
<1>5. CASE k < j
  BY Apart, <1>2, <1>3, <1>5
<1> QED BY <1>2, <1>4, <1>5

(* A queued ticket, and the next one to be drawn while no worker is lapped *)
(* by it, are not in the slot of a popped ticket about to be cleared.      *)
LEMMA ClearingApart ==
  ASSUME IInv, NEW w \in Worker, At(w, "clear"),
         NEW k \in Nat, head <= k, k < h[w] + MAX_GLOBAL_MQ
  PROVE  GP(k) # GP(h[w])
<1>1. h[w] \in Nat /\ h[w] < k
  BY DEF IInv, TypeOK, Clearing
<1> QED BY <1>1, Apart

-----------------------------------------------------------------------------
(* The initial state                                                       *)

\* At first only the boot cell is in the ring.
LEMMA InitInvariant == Init => IInv
<1> SUFFICES ASSUME Init PROVE IInv
  OBVIOUS
<1> DEFINE n == Len(Boot)
<1>1. /\ n \in Nat
      /\ \A i \in 1 .. n : Boot[i] \in Cell
      /\ DOMAIN Boot = 1 .. n
      /\ Boot \in [1 .. n -> Cell]
  BY BootAssumption
<1>2. n < MAX_GLOBAL_MQ
  <2>1. Boot \in Injection(1 .. n, Cell)
    BY <1>1, BootAssumption DEF Injection, IsInjective
  <2>2. Cardinality(1 .. n) <= Cardinality(Cell)
    BY <2>1, FS_Injection, CellAssumption
  <2>3. 1 \in Int /\ n \in Int
    BY <1>1
  <2>4. Cardinality(1 .. n) = IF 1 > n THEN 0 ELSE n - 1 + 1
    BY <2>3, FS_Interval
  <2>5. Cardinality(Cell) \in Nat
    BY CellAssumption, FS_CardinalityType
  <2> QED BY <1>1, <2>2, <2>4, <2>5, CellAssumption, RingAssumption
<1>3. TypeOK
  <2>1. \A s \in Slot : s < n => s + 1 \in 1 .. n
    BY <1>1, RingAssumption DEF Slot
  <2>2. queue \in [Slot -> Cell \union {NoCell}]
    BY <1>1, <2>1 DEF Init
  <2>3. live \subseteq Cell
    BY <1>1 DEF Init
  <2> QED BY <1>1, <2>2, <2>3 DEF Init, TypeOK, Location
<1>4. /\ \A w \in Worker : \A k : ~Draws(w, k)
      /\ \A w \in Worker, c \in Cell : ~Holds(w, c) /\ ~Fresh(w, c)
      /\ \A w \in Worker : ~At(w, "clear")
      /\ \A k : ~Pending(k)
  BY DEF Init, Draws, Holds, Fresh, At, Pending
<1>5. Queued = 0 .. n - 1
  BY DEF Init, Queued
<1>6. ASSUME NEW k \in Queued
      PROVE  /\ k \in Slot /\ GP(k) = k
             /\ queue[k] = Boot[k + 1] /\ flag[k] /\ k + 1 \in 1 .. n
  <2>1. k \in Slot /\ k < n /\ k \in Nat /\ k < MAX_GLOBAL_MQ
    BY <1>1, <1>2, <1>5, RingAssumption DEF Slot
  <2>2. GP(k) = k
    BY <2>1, RingAssumption DEF GP
  <2>3. queue[k] = Boot[k + 1] /\ flag[k]
    BY <2>1 DEF Init
  <2> QED BY <1>1, <2>1, <2>2, <2>3
<1>7. \A k \in Queued, c \in Cell : Stands(k, c) <=> Boot[k + 1] = c
  BY <1>6, <1>4 DEF Stands
<1>8. Carried /\ Clearing /\ Checked
  <2>1. \A w \in Worker : pc[w] = "idle"
    BY DEF Init
  <2> QED BY <2>1, <1>4 DEF Carried, Clearing, NoLap, Checked, Pushing,
                            Popping, At
<1>9. Tickets
  BY <1>1, <1>4 DEF Init, Tickets, At
<1>10. Flags
  <2>1. \A s \in Slot : flag[s] => s < n
    BY DEF Init
  <2>2. \A s \in Slot : flag[s] => s \in Queued
    BY <2>1, <1>5, <1>1, RingAssumption DEF Slot
  <2> QED BY <2>2, <1>1, <1>4, <1>6 DEF Flags, FlagMarksUse
<1>11. OnePlace /\ MutualExclusion
  <2>1. \A j, k \in Queued, c \in Cell : Stands(j, c) /\ Stands(k, c) => j = k
    <3> SUFFICES ASSUME NEW j \in Queued, NEW k \in Queued, NEW c \in Cell,
                        Stands(j, c), Stands(k, c)
                 PROVE  j = k
      OBVIOUS
    <3>1. Boot[j + 1] = Boot[k + 1] /\ j + 1 \in 1 .. n /\ k + 1 \in 1 .. n
      BY <1>6, <1>7
    <3>2. j + 1 = k + 1
      BY <3>1, <1>1, BootAssumption
    <3> QED BY <3>2, <1>5, <1>1
  <2> QED BY <2>1, <1>4 DEF OnePlace, MutualExclusion
<1>12. OnlyLive
  <2>1. \A k \in Queued, c \in Cell : Stands(k, c) => c \in live
    BY <1>1, <1>6, <1>7 DEF Init
  <2> QED BY <2>1, <1>4 DEF OnlyLive
<1>13. NoCellLost
  <2> SUFFICES ASSUME NEW c \in live PROVE \E k \in Queued : Stands(k, c)
    BY DEF NoCellLost
  <2>1. PICK i \in 1 .. n : Boot[i] = c
    BY <1>1 DEF Init
  <2>2. i - 1 \in Queued /\ (i - 1) + 1 = i /\ c \in Cell
    BY <1>1, <1>5, <2>1
  <2> QED BY <2>1, <2>2, <1>7
<1> QED BY <1>3, <1>8, <1>9, <1>10, <1>11, <1>12, <1>13 DEF IInv

-----------------------------------------------------------------------------
(* globalmq_pop                                                            *)

(* A step of pop before its compare-and-swap succeeds changes neither the  *)
(* ring nor what any worker carries.                                       *)
LEMMA PopMove ==
  ASSUME IInv, NEW w \in Worker,
         pc[w] \in {"idle"} \union Popping,
         NEW l \in {"idle"} \union Popping, Goto(w, l),
         UNCHANGED <<ring, item, t, live>>,
         \A v \in Worker \ {w} : cell'[v] = cell[v] /\ h'[v] = h[v]
  PROVE  /\ Carried' /\ Tickets' /\ Flags' /\ Clearing'
         /\ OnePlace' /\ MutualExclusion' /\ OnlyLive' /\ NoCellLost'
         /\ \A k \in Nat : Pending(k)' <=> Pending(k)
<1> USE DEF ring
<1>1. /\ pc'[w] = l
      /\ \A v \in Worker \ {w} : pc'[v] = pc[v]
      /\ pc[w] \notin {"clear", "run", "ticket", "store", "publish"}
      /\ l \notin {"clear", "run", "ticket", "store", "publish"}
  BY DEF Goto, IInv, TypeOK, Popping
<1>2. \A v \in Worker, c \in Cell : Holds(v, c)' <=> Holds(v, c)
  BY <1>1 DEF Holds
<1>3. \A v \in Worker, c \in Cell : Fresh(v, c)' <=> Fresh(v, c)
  BY <1>1 DEF Fresh, At
<1>4. \A v \in Worker, k \in Nat : Draws(v, k)' <=> Draws(v, k)
  BY <1>1 DEF Draws
<1>5. \A k \in Nat : Pending(k)' <=> Pending(k)
  BY <1>4 DEF Pending
<1>6. \A k \in Nat, c \in Cell : Stands(k, c)' <=> Stands(k, c)
  BY <1>4, <1>5 DEF Stands, GP
<1>7. \A v \in Worker :
         At(v, "clear")' <=> At(v, "clear")
  BY <1>1 DEF At
<1>8. Queued' = Queued /\ Queued \subseteq Nat
  BY DEF Queued, IInv, TypeOK
<1>9. Carried'
  BY <1>1 DEF IInv, Carried, Pushing
<1>10. Tickets'
  <2>1. \A v \in Worker : At(v, "publish")' <=> At(v, "publish")
    BY <1>1 DEF At
  <2>2. \A v \in Worker : t[v] \in Nat
    BY DEF IInv, TypeOK
  <2> QED BY <2>1, <2>2, <1>4, <1>8 DEF IInv, Tickets, GP
<1>11. Flags'
  <2>1. \A v \in Worker : At(v, "clear") => h'[v] = h[v]
    BY <1>1 DEF At
  <2> QED BY <2>1, <1>5, <1>7, <1>8 DEF IInv, Flags, FlagMarksUse, GP, Slot
<1>12. Clearing'
  <2>1. \A v \in Worker : At(v, "clear") => h'[v] = h[v]
    BY <1>1 DEF At
  <2> QED BY <2>1, <1>7 DEF IInv, Clearing, NoLap
<1>13. OnePlace' /\ MutualExclusion' /\ OnlyLive' /\ NoCellLost'
  <2>1. live \subseteq Cell
    BY DEF IInv, TypeOK
  <2> QED BY <2>1, <1>2, <1>3, <1>6, <1>8
          DEF IInv, OnePlace, MutualExclusion, OnlyLive, NoCellLost
<1> QED BY <1>5, <1>9, <1>10, <1>11, <1>12, <1>13

\* A worker takes note of the head, of which nothing is known yet.
LEMMA LoadHeadStep ==
  ASSUME IInv, NEW w \in Worker, LoadHead(w)
  PROVE  IInv'
<1> USE DEF LoadHead, At, Goto
<1>1. TypeOK'
  BY DEF IInv, TypeOK, Location, Popping, ring
<1>2. /\ Carried' /\ Tickets' /\ Flags' /\ Clearing'
      /\ OnePlace' /\ MutualExclusion' /\ OnlyLive' /\ NoCellLost'
      /\ \A k \in Nat : Pending(k)' <=> Pending(k)
  BY PopMove DEF Popping, IInv, TypeOK
<1>3. Checked'
  BY <1>2 DEF IInv, TypeOK, Checked, Popping, ring, GP
<1> QED BY <1>1, <1>2, <1>3 DEF IInv

\* The tail is past the head that was noted, unless the ring looked empty.
LEMMA CheckTailStep ==
  ASSUME IInv, NEW w \in Worker, CheckTail(w)
  PROVE  IInv'
<1> USE DEF CheckTail, At, Goto
<1>1. TypeOK'
  BY DEF IInv, TypeOK, Location, Popping, ring
<1>2. /\ Carried' /\ Tickets' /\ Flags' /\ Clearing'
      /\ OnePlace' /\ MutualExclusion' /\ OnlyLive' /\ NoCellLost'
      /\ \A k \in Nat : Pending(k)' <=> Pending(k)
  BY PopMove DEF Popping, IInv, TypeOK
<1>3. head = h[w] => GP(h[w]) = GP(tail) \/ head < tail
  BY DEF IInv, TypeOK, Tickets
<1>4. Checked'
  BY <1>2, <1>3 DEF IInv, TypeOK, Checked, Popping, ring, GP
<1> QED BY <1>1, <1>2, <1>4 DEF IInv

(* A flag that pop finds raised under the current head is that of the      *)
(* ticket at the head, whose push is complete: not one left by an earlier  *)
(* lap.                                                                    *)
LEMMA CheckFlagStep ==
  ASSUME IInv, NEW w \in Worker, CheckFlag(w)
  PROVE  IInv'
<1> USE DEF CheckFlag, At, Goto
<1>1. TypeOK'
  BY DEF IInv, TypeOK, Location, Popping, ring
<1>2. /\ Carried' /\ Tickets' /\ Flags' /\ Clearing'
      /\ OnePlace' /\ MutualExclusion' /\ OnlyLive' /\ NoCellLost'
      /\ \A k \in Nat : Pending(k)' <=> Pending(k)
  BY PopMove DEF Popping, IInv, TypeOK
<1>3. ASSUME flag[GP(h[w])], h[w] = head PROVE ~Pending(head)
  <2>1. head \in Nat /\ head < tail /\ head \in Queued /\ GP(head) \in Slot
    BY <1>3, SlotOfTicket DEF IInv, Checked, TypeOK, Queued
  <2>2. CASE \E k \in Queued : ~Pending(k) /\ GP(k) = GP(head)
    BY <2>1, <2>2, QueuedApart
  <2>3. ASSUME NEW v \in Worker, At(v, "clear"), GP(h[v]) = GP(head)
        PROVE  FALSE
    <3>1. tail <= h[v] + MAX_GLOBAL_MQ /\ h[v] \in Nat /\ tail \in Nat
      BY <2>3 DEF IInv, Clearing, NoLap, TypeOK
    <3>2. head < h[v] + MAX_GLOBAL_MQ
      BY <3>1, <2>1, RingAssumption
    <3> QED BY <3>2, <2>1, <2>3, ClearingApart
  <2> QED BY <1>3, <2>1, <2>2, <2>3 DEF IInv, Flags
<1>4. Checked'
  BY <1>2, <1>3 DEF IInv, TypeOK, Checked, Popping, ring, GP
<1> QED BY <1>1, <1>2, <1>4 DEF IInv

\* While the head has not moved, its slot has the cell that its ticket stands for.
LEMMA ReadSlotStep ==
  ASSUME IInv, NEW w \in Worker, ReadSlot(w)
  PROVE  IInv'
<1> USE DEF ReadSlot, At, Goto
<1>1. GP(h[w]) \in Slot
  BY SlotOfTicket DEF IInv, TypeOK
<1>2. TypeOK'
  BY <1>1 DEF IInv, TypeOK, Location, Popping, ring
<1>3. /\ Carried' /\ Tickets' /\ Flags' /\ Clearing'
      /\ OnePlace' /\ MutualExclusion' /\ OnlyLive' /\ NoCellLost'
      /\ \A k \in Nat : Pending(k)' <=> Pending(k)
  BY PopMove DEF Popping, IInv, TypeOK
<1>4. Checked'
  BY <1>3 DEF IInv, TypeOK, Checked, Popping, ring, GP
<1> QED BY <1>2, <1>3, <1>4 DEF IInv

(* The compare-and-swap takes the cell at the head out of the ring, and    *)
(* that cell is the one pop read.                                          *)
LEMMA CasHeadStep ==
  ASSUME IInv, NEW w \in Worker, CasHead(w)
  PROVE  IInv'
<1> USE DEF At, Goto
<1>1. TypeOK'
  BY DEF CasHead, IInv, TypeOK, Location
<1>2. CASE head # h[w]
  <2>1. /\ Carried' /\ Tickets' /\ Flags' /\ Clearing'
        /\ OnePlace' /\ MutualExclusion' /\ OnlyLive' /\ NoCellLost'
        /\ \A k \in Nat : Pending(k)' <=> Pending(k)
    BY <1>2, PopMove DEF CasHead, Popping, IInv, TypeOK, ring
  <2>2. Checked'
    BY <1>2, <2>1 DEF CasHead, IInv, TypeOK, Checked, Popping, GP
  <2> QED BY <1>1, <2>1, <2>2 DEF IInv
<1>3. CASE head = h[w]
  <2>1. /\ head' = head + 1 /\ UNCHANGED <<tail, queue, flag, h, cell, item, t, live>>
        /\ pc[w] = "cas" /\ pc' = [pc EXCEPT ![w] = "clear"]
    BY <1>3 DEF CasHead
  <2>2. /\ head \in Nat /\ tail \in Nat /\ head < tail /\ ~Pending(head)
        /\ cell[w] = queue[GP(head)] /\ head \in Queued
    BY <1>3, <2>1 DEF IInv, TypeOK, Checked, Queued
  <2>3. cell[w] \in Cell /\ Stands(head, cell[w])
    BY <2>2 DEF IInv, Flags, Stands
  <2>4. /\ pc'[w] = "clear"
        /\ \A v \in Worker \ {w} : pc'[v] = pc[v]
    BY <2>1 DEF IInv, TypeOK
  <2>5. \A v \in Worker, c \in Cell :
           Holds(v, c)' <=> (Holds(v, c) \/ (v = w /\ c = cell[w]))
    BY <2>1, <2>4 DEF Holds
  <2>6. \A v \in Worker, c \in Cell : Fresh(v, c)' <=> Fresh(v, c)
    BY <2>1, <2>4 DEF Fresh
  <2>7. \A v \in Worker, k \in Nat : Draws(v, k)' <=> Draws(v, k)
    BY <2>1, <2>4 DEF Draws
  <2>8. \A k \in Nat : Pending(k)' <=> Pending(k)
    BY <2>7 DEF Pending
  <2>9. \A k \in Nat, c \in Cell : Stands(k, c)' <=> Stands(k, c)
    BY <2>1, <2>7, <2>8 DEF Stands, GP
  <2>10. /\ Queued' = Queued \ {head}
         /\ Queued \subseteq Nat
    BY <2>1, <2>2 DEF Queued
  <2>11. \A c \in Cell : Stands(head, c) => c = cell[w]
    BY <2>2 DEF Stands, Pending
  <2>12. ~Holds(w, cell[w])
    BY <2>2, <2>3 DEF IInv, OnePlace
  <2>13. Carried'
    BY <2>1, <2>3, <2>4 DEF IInv, Carried, Pushing
  <2>14. Tickets'
    <3>1. \A v \in Worker : At(v, "publish")' => At(v, "publish")
      BY <2>4
    <3>2. \A v \in Worker : t[v] \in Nat
      BY DEF IInv, TypeOK
    <3>3. \A v \in Worker : Draws(v, t[v])' => t[v] # head
      BY <2>1, <2>2, <2>4, <3>2 DEF Pending, Draws
    <3> QED BY <2>1, <2>2, <2>7, <2>10, <3>1, <3>2, <3>3
            DEF IInv, Tickets, GP
  <2>15. Flags'
    <3>1. \A v \in Worker : At(v, "clear") => At(v, "clear")'
      BY <2>4
    <3>2. At(w, "clear")' /\ h'[w] = head
      BY <1>3, <2>1, <2>4
    <3>3. FlagMarksUse' /\ \A k \in Queued' : ~Pending(k)' => queue'[GP(k)'] \in Cell
      BY <2>1, <2>8, <2>10 DEF IInv, Flags, FlagMarksUse, GP
    <3>4. ASSUME NEW s \in Slot, flag'[s]
          PROVE  \/ \E k \in Queued' : ~Pending(k)' /\ GP(k) = s
                 \/ \E v \in Worker : At(v, "clear")' /\ GP(h'[v]) = s
      <4>1. CASE \E k \in Queued : ~Pending(k) /\ GP(k) = s
        BY <4>1, <2>8, <2>10, <3>2
      <4>2. CASE \E v \in Worker : At(v, "clear") /\ GP(h[v]) = s
        BY <4>2, <2>1, <3>1
      <4> QED BY <3>4, <2>1, <4>1, <4>2 DEF IInv, Flags
    <3> QED BY <3>3, <3>4 DEF Flags, GP, Slot
  <2>16. Clearing'
    <3>1. tail < head + MAX_GLOBAL_MQ
      BY Room DEF IInv
    <3> QED BY <1>3, <2>1, <2>2, <2>4, <3>1, RingAssumption
            DEF IInv, TypeOK, Clearing, NoLap
  <2>17. Checked'
    <3>1. \A v \in Worker : pc'[v] \in Popping => pc[v] \in Popping /\ h[v] <= head
      BY <2>4 DEF IInv, Checked, Popping
    <3>2. \A v \in Worker : pc'[v] \in Popping => h'[v] < head'
      BY <2>1, <2>2, <3>1 DEF IInv, TypeOK
    <3>3. \A v \in Worker : pc'[v] \in Popping => h'[v] # head' /\ h'[v] <= head'
      BY <3>2, <2>1, <2>2 DEF IInv, TypeOK
    <3> QED BY <3>3 DEF Checked, Popping
  <2>18. OnePlace'
    BY <2>3, <2>5, <2>6, <2>9, <2>10, <2>2 DEF IInv, OnePlace
  <2>19. MutualExclusion'
    BY <2>2, <2>3, <2>5 DEF IInv, MutualExclusion, OnePlace
  <2>20. OnlyLive'
    BY <2>1, <2>2, <2>3, <2>5, <2>6, <2>9, <2>10 DEF IInv, OnlyLive
  <2>21. NoCellLost'
    <3>1. live \subseteq Cell
      BY DEF IInv, TypeOK
    <3> QED BY <3>1, <2>1, <2>5, <2>6, <2>9, <2>10, <2>11 DEF IInv, NoCellLost
  <2> QED BY <1>1, <2>13, <2>14, <2>15, <2>16, <2>17, <2>18, <2>19, <2>20,
             <2>21 DEF IInv
<1> QED BY <1>2, <1>3

(* The flag cleared late is that of the popped ticket: the slot has not    *)
(* been pushed to again.                                                   *)
LEMMA ClearFlagStep ==
  ASSUME IInv, NEW w \in Worker, ClearFlag(w)
  PROVE  IInv'
<1> USE DEF At, Goto
<1>1. /\ UNCHANGED <<head, tail, queue, h, cell, item, t, live>>
      /\ pc[w] = "clear" /\ pc' = [pc EXCEPT ![w] = "run"]
      /\ flag' = [flag EXCEPT ![GP(h[w])] = FALSE]
  BY DEF ClearFlag
<1>2. TypeOK'
  BY <1>1 DEF IInv, TypeOK, Location
<1>3. /\ pc'[w] = "run"
      /\ \A v \in Worker \ {w} : pc'[v] = pc[v]
  BY <1>1 DEF IInv, TypeOK
<1>4. \A v \in Worker, c \in Cell : /\ Holds(v, c)' <=> Holds(v, c)
                                    /\ Fresh(v, c)' <=> Fresh(v, c)
  BY <1>1, <1>3 DEF Holds, Fresh
<1>5. \A v \in Worker, k \in Nat : Draws(v, k)' <=> Draws(v, k)
  BY <1>1, <1>3 DEF Draws
<1>6. \A k \in Nat : Pending(k)' <=> Pending(k)
  BY <1>5 DEF Pending
<1>7. \A k \in Nat, c \in Cell : Stands(k, c)' <=> Stands(k, c)
  BY <1>1, <1>5, <1>6 DEF Stands, GP
<1>8. Queued' = Queued /\ Queued \subseteq Nat
  BY <1>1 DEF Queued, IInv, TypeOK
<1>9. Carried'
  BY <1>1, <1>3 DEF IInv, Carried, Pushing
<1>10. Tickets'
  <2>1. \A v \in Worker : At(v, "publish")' <=> At(v, "publish")
    BY <1>1, <1>3
  <2>2. \A v \in Worker : t[v] \in Nat
    BY DEF IInv, TypeOK
  <2> QED BY <1>1, <2>1, <2>2, <1>5, <1>8 DEF IInv, Tickets, GP
<1>11. Flags'
  <2>1. GP(h[w]) \in Slot
    BY SlotOfTicket DEF IInv, TypeOK
  <2>2. \A s \in Slot : flag'[s] <=> flag[s] /\ s # GP(h[w])
    BY <1>1, <2>1 DEF IInv, TypeOK
  <2>3. ASSUME NEW k \in Queued PROVE GP(k) # GP(h[w]) /\ GP(k) \in Slot
    <3>1. /\ k \in Nat /\ head <= k /\ k < tail /\ tail <= h[w] + MAX_GLOBAL_MQ
          /\ tail \in Nat /\ h[w] \in Nat
      BY <1>1 DEF IInv, TypeOK, Queued, Clearing, NoLap
    <3> QED BY <1>1, <3>1, ClearingApart, SlotOfTicket, RingAssumption
  <2>4. FlagMarksUse'
    BY <1>6, <1>8, <2>2, <2>3 DEF IInv, Flags, FlagMarksUse, GP
  <2>5. \A v \in Worker : At(v, "clear") /\ GP(h[v]) # GP(h[w]) => At(v, "clear")'
    BY <1>3
  <2>6. ASSUME NEW s \in Slot, flag'[s]
        PROVE  \/ \E k \in Queued : ~Pending(k) /\ GP(k) = s
               \/ \E v \in Worker : At(v, "clear")' /\ GP(h[v]) = s
    BY <2>2, <2>5, <2>6 DEF IInv, Flags
  <2> QED BY <1>1, <1>6, <1>8, <2>4, <2>6 DEF IInv, Flags, GP, Slot
<1>12. Clearing'
  BY <1>1, <1>3 DEF IInv, Clearing, NoLap
<1>13. Checked'
  BY <1>1, <1>3, <1>6 DEF IInv, TypeOK, Checked, Popping, GP
<1>14. OnePlace' /\ MutualExclusion' /\ OnlyLive' /\ NoCellLost'
  <2>1. live \subseteq Cell
    BY DEF IInv, TypeOK
  <2> QED BY <1>1, <2>1, <1>4, <1>7, <1>8
          DEF IInv, OnePlace, MutualExclusion, OnlyLive, NoCellLost
<1> QED BY <1>2, <1>9, <1>10, <1>11, <1>12, <1>13, <1>14 DEF IInv

-----------------------------------------------------------------------------
(* _message_dispatch                                                       *)

(* What a worker does with the cell it holds leaves the ring, the tickets  *)
(* and the other workers alone.                                            *)
LEMMA DispatchMove ==
  ASSUME IInv, NEW w \in Worker, At(w, "run"),
         NEW l \in {"idle", "ticket"}, Goto(w, l),
         UNCHANGED <<ring, h, t>>,
         \A v \in Worker \ {w} : cell'[v] = cell[v] /\ item'[v] = item[v]
  PROVE  /\ Tickets' /\ Flags' /\ Clearing' /\ Checked'
         /\ pc'[w] = l
         /\ \A v \in Worker \ {w} : pc'[v] = pc[v]
         /\ \A k \in Nat, c \in Cell : Stands(k, c)' <=> Stands(k, c)
         /\ Queued' = Queued /\ Queued \subseteq Nat
<1> USE DEF ring, At, Goto
<1>1. /\ pc[w] = "run" /\ pc'[w] = l
      /\ \A v \in Worker \ {w} : pc'[v] = pc[v]
  BY DEF IInv, TypeOK
<1>2. \A v \in Worker, k \in Nat : Draws(v, k)' <=> Draws(v, k)
  BY <1>1 DEF Draws
<1>3. \A k \in Nat : Pending(k)' <=> Pending(k)
  BY <1>2 DEF Pending
<1>4. \A k \in Nat, c \in Cell : Stands(k, c)' <=> Stands(k, c)
  <2>1. \A v \in Worker, k \in Nat : Draws(v, k) => item'[v] = item[v]
    BY <1>1 DEF Draws
  <2> QED BY <2>1, <1>2, <1>3 DEF Stands, GP
<1>5. Queued' = Queued /\ Queued \subseteq Nat
  BY DEF Queued, IInv, TypeOK
<1>6. Tickets'
  <2>1. \A v \in Worker : At(v, "publish")' => At(v, "publish") /\ v # w
    BY <1>1
  <2>2. \A v \in Worker : t[v] \in Nat
    BY DEF IInv, TypeOK
  <2> QED BY <2>1, <2>2, <1>2, <1>5 DEF IInv, Tickets, GP
<1>7. Flags'
  <2>1. \A v \in Worker : At(v, "clear")' <=> At(v, "clear")
    BY <1>1
  <2> QED BY <2>1, <1>3, <1>5 DEF IInv, Flags, FlagMarksUse, GP, Slot
<1>8. Clearing'
  BY <1>1 DEF IInv, Clearing, NoLap
<1>9. Checked'
  BY <1>1, <1>3 DEF IInv, TypeOK, Checked, Popping, GP
<1> QED BY <1>1, <1>4, <1>5, <1>6, <1>7, <1>8, <1>9

\* A cell that quits leaves the hands it was in.
LEMMA RetireStep ==
  ASSUME IInv, NEW w \in Worker, Retire(w)
  PROVE  IInv'
<1>1. /\ pc[w] = "run" /\ Goto(w, "idle") /\ UNCHANGED <<ring, h, t, item>>
      /\ live' = live \ {cell[w]} /\ cell' = [cell EXCEPT ![w] = NoCell]
  BY DEF Retire, At
<1>2. cell[w] \in Cell /\ Holds(w, cell[w])
  BY <1>1 DEF IInv, Carried, Holds
<1>3. TypeOK'
  BY <1>1 DEF IInv, TypeOK, Location, Goto, ring
<1>4. /\ Tickets' /\ Flags' /\ Clearing' /\ Checked'
      /\ pc'[w] = "idle"
      /\ \A v \in Worker \ {w} : pc'[v] = pc[v]
      /\ \A k \in Nat, c \in Cell : Stands(k, c)' <=> Stands(k, c)
      /\ Queued' = Queued /\ Queued \subseteq Nat
  <2>1. \A v \in Worker \ {w} : cell'[v] = cell[v] /\ item'[v] = item[v]
    BY <1>1 DEF IInv, TypeOK
  <2> QED BY <1>1, <2>1, DispatchMove DEF At
<1>5. \A v \in Worker, c \in Cell :
         /\ Holds(v, c)' <=> Holds(v, c) /\ v # w
         /\ Fresh(v, c)' <=> Fresh(v, c)
  BY <1>1, <1>4 DEF Holds, Fresh, At, IInv, TypeOK
<1>6. Carried'
  BY <1>1, <1>4 DEF IInv, TypeOK, Carried, Pushing
<1>7. OnePlace' /\ MutualExclusion'
  BY <1>4, <1>5 DEF IInv, OnePlace, MutualExclusion
<1>8. OnlyLive'
  <2>1. \A k \in Queued : ~Stands(k, cell[w])
    BY <1>2 DEF IInv, OnePlace
  <2>2. \A v \in Worker : ~Fresh(v, cell[w])
    BY <1>2 DEF IInv, OnePlace
  <2>3. \A v \in Worker : Holds(v, cell[w]) => v = w
    BY <1>2 DEF IInv, MutualExclusion
  <2> QED BY <2>1, <2>2, <2>3, <1>1, <1>4, <1>5 DEF IInv, OnlyLive
<1>9. NoCellLost'
  <2>1. live \subseteq Cell /\ \A c \in Cell : Holds(w, c) => c = cell[w]
    BY DEF IInv, TypeOK, Holds
  <2> QED BY <2>1, <1>1, <1>4, <1>5 DEF IInv, NoCellLost
<1> QED BY <1>3, <1>4, <1>6, <1>7, <1>8, <1>9 DEF IInv

\* A cell goes from its worker's hands to the worker's push.
LEMMA PushBackStep ==
  ASSUME IInv, NEW w \in Worker, PushBack(w)
  PROVE  IInv'
<1>1. /\ pc[w] = "run" /\ Goto(w, "ticket") /\ UNCHANGED <<ring, h, t, cell, live>>
      /\ item' = [item EXCEPT ![w] = cell[w]]
  BY DEF PushBack, At
<1>2. cell[w] \in Cell
  BY <1>1 DEF IInv, Carried
<1>3. TypeOK'
  BY <1>1, <1>2 DEF IInv, TypeOK, Location, Pushing, Goto, ring
<1>4. /\ Tickets' /\ Flags' /\ Clearing' /\ Checked'
      /\ pc'[w] = "ticket"
      /\ \A v \in Worker \ {w} : pc'[v] = pc[v]
      /\ \A k \in Nat, c \in Cell : Stands(k, c)' <=> Stands(k, c)
      /\ Queued' = Queued /\ Queued \subseteq Nat
  <2>1. \A v \in Worker \ {w} : cell'[v] = cell[v] /\ item'[v] = item[v]
    BY <1>1 DEF IInv, TypeOK
  <2> QED BY <1>1, <2>1, DispatchMove DEF At
<1>5. \A v \in Worker, c \in Cell :
         /\ Holds(v, c)' <=> Holds(v, c)
         /\ Fresh(v, c)' <=> Fresh(v, c)
  BY <1>1, <1>4 DEF Holds, Fresh, At, IInv, TypeOK
<1>6. Carried'
  BY <1>1, <1>2, <1>4 DEF IInv, TypeOK, Carried, Pushing
<1>7. OnePlace' /\ MutualExclusion' /\ OnlyLive' /\ NoCellLost'
  <2>1. live \subseteq Cell
    BY DEF IInv, TypeOK
  <2> QED BY <2>1, <1>1, <1>4, <1>5
          DEF IInv, OnePlace, MutualExclusion, OnlyLive, NoCellLost
<1> QED BY <1>3, <1>4, <1>6, <1>7 DEF IInv

\* A cell that is launched is nowhere yet.
LEMMA StartStep ==
  ASSUME IInv, NEW w \in Worker, NEW n \in Cell, Start(w, n)
  PROVE  IInv'
<1>1. /\ pc[w] = "run" /\ Goto(w, "ticket") /\ UNCHANGED <<ring, h, t, cell>>
      /\ item' = [item EXCEPT ![w] = n]
      /\ n \notin live /\ live' = live \union {n}
  BY DEF Start, At
<1>2. cell[w] \in Cell /\ Holds(w, cell[w]) /\ n # cell[w]
  BY <1>1 DEF IInv, Carried, OnlyLive, Holds
<1>3. TypeOK'
  BY <1>1 DEF IInv, TypeOK, Location, Pushing, Goto, ring
<1>4. /\ Tickets' /\ Flags' /\ Clearing' /\ Checked'
      /\ pc'[w] = "ticket"
      /\ \A v \in Worker \ {w} : pc'[v] = pc[v]
      /\ \A k \in Nat, c \in Cell : Stands(k, c)' <=> Stands(k, c)
      /\ Queued' = Queued /\ Queued \subseteq Nat
  <2>1. \A v \in Worker \ {w} : cell'[v] = cell[v] /\ item'[v] = item[v]
    BY <1>1 DEF IInv, TypeOK
  <2> QED BY <1>1, <2>1, DispatchMove DEF At
<1>5. \A v \in Worker, c \in Cell :
         /\ Holds(v, c)' <=> Holds(v, c)
         /\ Fresh(v, c)' <=> Fresh(v, c) \/ (v = w /\ c = n)
  BY <1>1, <1>2, <1>4 DEF Holds, Fresh, At, IInv, TypeOK
<1>6. Carried'
  BY <1>1, <1>2, <1>4 DEF IInv, TypeOK, Carried, Pushing
<1>7. /\ \A k \in Queued : ~Stands(k, n)
      /\ \A v \in Worker : ~Holds(v, n) /\ ~Fresh(v, n)
  BY <1>1 DEF IInv, OnlyLive
<1>8. OnePlace' /\ MutualExclusion'
  BY <1>4, <1>5, <1>7 DEF IInv, OnePlace, MutualExclusion
<1>9. OnlyLive' /\ NoCellLost'
  <2>1. live \subseteq Cell
    BY DEF IInv, TypeOK
  <2> QED BY <2>1, <1>1, <1>4, <1>5 DEF IInv, OnlyLive, NoCellLost
<1> QED BY <1>3, <1>4, <1>6, <1>8, <1>9 DEF IInv

-----------------------------------------------------------------------------
(* globalmq_push                                                           *)

(* A ticket drawn by the fetch-and-add stands for the cell to be pushed,   *)
(* and only for it.                                                        *)
LEMMA TakeTicketStep ==
  ASSUME IInv, NEW w \in Worker, TakeTicket(w), NoLap'
  PROVE  IInv'
<1>1. /\ pc[w] = "ticket" /\ pc' = [pc EXCEPT ![w] = "store"]
      /\ t' = [t EXCEPT ![w] = tail] /\ tail' = tail + 1
      /\ UNCHANGED <<head, queue, flag, h, cell, item, live>>
  BY DEF TakeTicket, At, Goto
<1>2. cell[w] \in Cell /\ item[w] \in Cell /\ head \in Nat /\ tail \in Nat
      /\ head <= tail
  BY <1>1 DEF IInv, Carried, Pushing, TypeOK, Tickets
<1>3. TypeOK'
  BY <1>1 DEF IInv, TypeOK, Location, Pushing
<1>4. /\ pc'[w] = "store" /\ t'[w] = tail
      /\ \A v \in Worker \ {w} : pc'[v] = pc[v] /\ t'[v] = t[v]
  BY <1>1 DEF IInv, TypeOK
<1>5. /\ Queued' = Queued \union {tail} /\ tail \notin Queued
      /\ Queued \subseteq Nat
  BY <1>1, <1>2 DEF Queued
<1>6. \A v \in Worker, k \in Nat :
         Draws(v, k)' <=> Draws(v, k) \/ (v = w /\ k = tail)
  BY <1>1, <1>4 DEF Draws
<1>7. \A v \in Worker, k \in Nat : Draws(v, k) => k \in Queued
  BY DEF IInv, Tickets, Draws
<1>8. /\ \A k \in Queued : Pending(k)' <=> Pending(k)
      /\ \A k \in Nat : k = tail => Pending(k)'
  BY <1>2, <1>5, <1>6 DEF Pending
<1>9. /\ \A k \in Queued, c \in Cell : Stands(k, c)' <=> Stands(k, c)
      /\ \A k \in Nat, c \in Cell : k = tail => (Stands(k, c)' <=> c = item[w])
  <2>1. \A k \in Queued, c \in Cell : Stands(k, c)' <=> Stands(k, c)
    BY <1>1, <1>5, <1>6, <1>8 DEF Stands, GP
  <2>2. \A k \in Nat, c \in Cell : k = tail => (Stands(k, c)' <=> c = item[w])
    BY <1>1, <1>2, <1>5, <1>6, <1>7, <1>8 DEF Stands
  <2> QED BY <2>1, <2>2
<1>10. \A v \in Worker, c \in Cell :
         /\ Holds(v, c)' <=> Holds(v, c) /\ (v = w => c # item[w])
         /\ Fresh(v, c)' <=> Fresh(v, c) /\ v # w
  BY <1>1, <1>4 DEF Holds, Fresh, At
<1>11. \/ Holds(w, item[w])
       \/ Fresh(w, item[w])
  BY <1>1 DEF Holds, Fresh, At
<1>12. /\ \A k \in Queued : ~Stands(k, item[w])
       /\ \A v \in Worker : v # w => ~Holds(v, item[w]) /\ ~Fresh(v, item[w])
       /\ item[w] \in live
  BY <1>2, <1>11 DEF IInv, OnePlace, MutualExclusion, OnlyLive
<1>13. Carried'
  BY <1>1, <1>2, <1>4 DEF IInv, Carried, Pushing
<1>14. Tickets'
  <2>1. \A v \in Worker : At(v, "publish")' => At(v, "publish") /\ v # w
    BY <1>4 DEF At
  <2>2. \A v \in Worker : t[v] \in Nat /\ t'[v] \in Nat
    BY <1>3 DEF IInv, TypeOK
  <2>3. \A v \in Worker : Draws(v, t[v])' => t'[v] \in Queued'
    BY <1>2, <1>4, <1>5, <1>6, <1>7, <2>2
  <2>4. \A v, u \in Worker : Draws(v, t[v])' /\ Draws(u, t[v])' => v = u
    BY <1>2, <1>4, <1>5, <1>6, <1>7, <2>2 DEF IInv, Tickets
  <2>5. \A v \in Worker : At(v, "publish")' => queue'[GP(t[v])'] = item'[v]
    BY <1>1, <1>4, <2>1 DEF IInv, Tickets, GP
  <2> QED BY <1>1, <1>2, <2>3, <2>4, <2>5 DEF Tickets
<1>15. Flags'
  <2>1. \A v \in Worker : At(v, "clear") => At(v, "clear")'
    BY <1>1, <1>4 DEF At
  <2>2. \A k \in Queued' : ~Pending(k)' => k \in Queued /\ ~Pending(k)
    BY <1>2, <1>5, <1>8
  <2>3. \A s \in Slot : flag[s] =>
           \/ \E k \in Queued' : ~Pending(k)' /\ GP(k) = s
           \/ \E v \in Worker : At(v, "clear")' /\ GP(h[v]) = s
    BY <2>1, <1>5, <1>8 DEF IInv, Flags
  <2>4. \A k \in Queued' : ~Pending(k)' => flag[GP(k)] /\ queue[GP(k)] \in Cell
    BY <2>2 DEF IInv, Flags, FlagMarksUse
  <2> QED BY <1>1, <2>3, <2>4 DEF Flags, FlagMarksUse, GP, Slot
<1>16. Clearing'
  BY <1>1, <1>4 DEF IInv, Clearing, At
<1>17. Checked'
  <2>1. \A v \in Worker : pc'[v] \in Popping => pc[v] = pc'[v]
    BY <1>4 DEF Popping
  <2>2. head < tail => head \in Queued
    BY <1>2 DEF Queued
  <2> QED BY <1>1, <1>2, <1>8, <2>1, <2>2
          DEF IInv, TypeOK, Checked, Popping, At, GP
<1>18. OnePlace'
  BY <1>5, <1>9, <1>10, <1>12, <1>2 DEF IInv, OnePlace
<1>19. MutualExclusion'
  BY <1>10 DEF IInv, MutualExclusion
<1>20. OnlyLive'
  <2>1. \A k \in Queued', c \in Cell : Stands(k, c)' =>
           c = item[w] \/ (k \in Queued /\ Stands(k, c))
    BY <1>2, <1>5, <1>9
  <2>2. \A k \in Queued', c \in Cell : Stands(k, c)' => c \in live
    BY <2>1, <1>12 DEF IInv, OnlyLive
  <2>3. \A v \in Worker, c \in Cell : Holds(v, c)' \/ Fresh(v, c)' => c \in live
    BY <1>10 DEF IInv, OnlyLive
  <2> QED BY <1>1, <2>2, <2>3 DEF OnlyLive
<1>21. NoCellLost'
  <2>1. live \subseteq Cell
    BY DEF IInv, TypeOK
  <2>2. \A c \in Cell : Fresh(w, c) => c = item[w]
    BY DEF Fresh
  <2>3. \A c \in Cell : c = item[w] => \E k \in Queued' : Stands(k, c)'
    BY <1>2, <1>5, <1>9
  <2>4. \A k \in Queued, c \in Cell : Stands(k, c) => k \in Queued' /\ Stands(k, c)'
    BY <1>5, <1>9
  <2>5. \A v \in Worker, c \in Cell :
           /\ Holds(v, c) => Holds(v, c)' \/ c = item[w]
           /\ Fresh(v, c) => Fresh(v, c)' \/ c = item[w]
    BY <1>10, <2>2
  <2>6. ASSUME NEW c \in live
        PROVE  \/ \E k \in Queued' : Stands(k, c)'
               \/ \E v \in Worker : Holds(v, c)'
               \/ \E v \in Worker : Fresh(v, c)'
    BY <2>1, <2>3, <2>4, <2>5 DEF IInv, NoCellLost
  <2> QED BY <1>1, <2>6 DEF NoCellLost
<1> QED BY <1>3, <1>13, <1>14, <1>15, <1>16, <1>17, <1>18, <1>19, <1>20, <1>21
        DEF IInv

(* A store touches no slot but that of its own ticket.                     *)
LEMMA StoreCellStep ==
  ASSUME IInv, NEW w \in Worker, StoreCell(w)
  PROVE  IInv'
<1>1. /\ pc[w] = "store" /\ pc' = [pc EXCEPT ![w] = "publish"]
      /\ queue' = [queue EXCEPT ![GP(t[w])] = item[w]]
      /\ UNCHANGED <<head, tail, flag, h, cell, item, t, live>>
  BY DEF StoreCell, At, Goto
<1>2. /\ cell[w] \in Cell /\ item[w] \in Cell /\ t[w] \in Queued
      /\ GP(t[w]) \in Slot /\ Draws(w, t[w]) /\ Pending(t[w])
  BY <1>1, SlotOfTicket
     DEF IInv, Carried, Pushing, TypeOK, Tickets, Draws, Pending
<1>3. TypeOK'
  BY <1>1, <1>2 DEF IInv, TypeOK, Location, Pushing
<1>4. /\ pc'[w] = "publish"
      /\ \A v \in Worker \ {w} : pc'[v] = pc[v]
  BY <1>1 DEF IInv, TypeOK
<1>5. Queued' = Queued /\ Queued \subseteq Nat
  BY <1>1 DEF Queued, IInv, TypeOK
<1>6. \A v \in Worker, k \in Nat : Draws(v, k)' <=> Draws(v, k)
  BY <1>1, <1>4 DEF Draws
<1>7. \A k \in Nat : Pending(k)' <=> Pending(k)
  BY <1>6 DEF Pending
<1>8. \A k \in Queued : k # t[w] => /\ GP(k) \in Slot
                                    /\ queue'[GP(k)] = queue[GP(k)]
  BY <1>1, <1>2, <1>5, SlotOfTicket, QueuedApart DEF IInv, TypeOK
<1>9. \A k \in Queued : ~Pending(k) => queue'[GP(k)] = queue[GP(k)]
  BY <1>2, <1>8
<1>10. \A k \in Queued, c \in Cell : Stands(k, c)' <=> Stands(k, c)
  BY <1>1, <1>5, <1>6, <1>7, <1>9 DEF Stands, GP
<1>11. \A v \in Worker, c \in Cell : /\ Holds(v, c)' <=> Holds(v, c)
                                     /\ Fresh(v, c)' <=> Fresh(v, c)
  BY <1>1, <1>4 DEF Holds, Fresh, At
<1>12. Carried'
  BY <1>1, <1>2, <1>4 DEF IInv, Carried, Pushing
<1>13. Tickets'
  <2>1. \A v \in Worker : t[v] \in Nat
    BY DEF IInv, TypeOK
  <2>2. ASSUME NEW v \in Worker, v # w, At(v, "publish")
        PROVE  queue'[GP(t[v])] = queue[GP(t[v])]
    <3>1. Draws(v, t[v]) /\ t[v] \in Queued
      BY <2>2 DEF IInv, Tickets, Draws, At
    <3>2. t[v] # t[w]
      BY <2>2, <3>1, <1>2 DEF IInv, Tickets
    <3> QED BY <3>1, <3>2, <1>8
  <2>3. \A v \in Worker : At(v, "publish")' => v = w \/ At(v, "publish")
    BY <1>4 DEF At
  <2>4. queue'[GP(t[w])] = item[w]
    BY <1>1, <1>2 DEF IInv, TypeOK
  <2>5. \A v \in Worker : At(v, "publish")' => queue'[GP(t[v])] = item[v]
    BY <2>2, <2>3, <2>4 DEF IInv, Tickets
  <2> QED BY <1>1, <1>5, <1>6, <2>1, <2>5 DEF IInv, Tickets, GP
<1>14. Flags'
  <2>1. \A v \in Worker : At(v, "clear")' <=> At(v, "clear")
    BY <1>1, <1>4 DEF At
  <2>2. FlagMarksUse' /\ \A k \in Queued : ~Pending(k) => queue'[GP(k)] \in Cell
    BY <1>1, <1>5, <1>7, <1>9 DEF IInv, Flags, FlagMarksUse, GP
  <2>3. \A s \in Slot : flag[s] =>
           \/ \E k \in Queued : ~Pending(k) /\ GP(k) = s
           \/ \E v \in Worker : At(v, "clear") /\ GP(h[v]) = s
    BY DEF IInv, Flags
  <2> QED BY <2>1, <2>2, <2>3, <1>1, <1>5, <1>7 DEF Flags, GP, Slot
<1>15. Clearing'
  BY <1>1, <1>4 DEF IInv, Clearing, NoLap, At
<1>16. Checked'
  <2>1. \A v \in Worker : pc'[v] \in Popping => pc[v] = pc'[v]
    BY <1>4 DEF Popping
  <2>2. head < tail /\ ~Pending(head) => queue'[GP(head)] = queue[GP(head)]
    BY <1>9 DEF IInv, TypeOK, Queued
  <2> QED BY <1>1, <1>7, <2>1, <2>2
          DEF IInv, TypeOK, Checked, Popping, At, GP
<1>17. OnePlace' /\ MutualExclusion' /\ OnlyLive' /\ NoCellLost'
  <2>1. live \subseteq Cell
    BY DEF IInv, TypeOK
  <2> QED BY <2>1, <1>1, <1>5, <1>10, <1>11
          DEF IInv, OnePlace, MutualExclusion, OnlyLive, NoCellLost
<1> QED BY <1>3, <1>12, <1>13, <1>14, <1>15, <1>16, <1>17 DEF IInv

(* Raising the flag completes the push: the slot holds the ticket's cell.  *)
LEMMA PublishStep ==
  ASSUME IInv, NEW w \in Worker, Publish(w)
  PROVE  IInv'
<1>1. /\ pc[w] = "publish"
      /\ pc' = [pc EXCEPT ![w] = IF item[w] = cell[w] THEN "idle" ELSE "run"]
      /\ flag' = [flag EXCEPT ![GP(t[w])] = TRUE]
      /\ cell' = [cell EXCEPT ![w] = IF item[w] = cell[w] THEN NoCell
                                                          ELSE cell[w]]
      /\ item' = [item EXCEPT ![w] = NoCell]
      /\ UNCHANGED <<head, tail, queue, h, t, live>>
  BY DEF Publish, At, Goto, IInv, TypeOK
<1>2. /\ cell[w] \in Cell /\ item[w] \in Cell /\ t[w] \in Queued
      /\ GP(t[w]) \in Slot /\ Draws(w, t[w])
      /\ queue[GP(t[w])] = item[w]
  BY <1>1, SlotOfTicket
     DEF IInv, Carried, Pushing, TypeOK, Tickets, Draws, At
<1>3. TypeOK'
  BY <1>1, <1>2 DEF IInv, TypeOK, Location
<1>4. /\ pc'[w] = IF item[w] = cell[w] THEN "idle" ELSE "run"
      /\ \A v \in Worker \ {w} : /\ pc'[v] = pc[v] /\ cell'[v] = cell[v]
                                 /\ item'[v] = item[v]
  BY <1>1 DEF IInv, TypeOK
<1>5. Queued' = Queued /\ Queued \subseteq Nat
  BY <1>1 DEF Queued, IInv, TypeOK
<1>6. \A v \in Worker, k \in Nat : Draws(v, k)' <=> Draws(v, k) /\ v # w
  BY <1>1, <1>4 DEF Draws
<1>7. \A v \in Worker : Draws(v, t[w]) => v = w
  BY <1>2 DEF IInv, Tickets
<1>8. \A k \in Nat : Draws(w, k) => k = t[w]
  BY DEF Draws
<1>9. \A k \in Nat : Pending(k)' <=> Pending(k) /\ k # t[w]
  BY <1>2, <1>6, <1>7, <1>8 DEF Pending
<1>10. \A k \in Queued, c \in Cell : Stands(k, c)' <=> Stands(k, c)
  <2>1. ASSUME NEW k \in Queued, NEW c \in Cell, k # t[w]
        PROVE  Stands(k, c)' <=> Stands(k, c)
    BY <2>1, <1>1, <1>4, <1>5, <1>6, <1>8, <1>9 DEF Stands, GP
  <2>2. ASSUME NEW c \in Cell
        PROVE  Stands(t[w], c) <=> item[w] = c
    BY <1>2, <1>7 DEF Stands, Pending
  <2>3. ASSUME NEW k \in Queued, NEW c \in Cell, k = t[w]
        PROVE  Stands(k, c)' <=> item[w] = c
    BY <2>3, <1>1, <1>2, <1>4, <1>5, <1>6, <1>7, <1>9 DEF Stands, GP
  <2> QED BY <2>1, <2>2, <2>3
<1>11. \A v \in Worker, c \in Cell : /\ Holds(v, c)' <=> Holds(v, c)
                                     /\ Fresh(v, c)' <=> Fresh(v, c)
  <2>1. ASSUME NEW c \in Cell
        PROVE  Holds(w, c)' <=> Holds(w, c)
    BY <1>1, <1>2, <1>4 DEF Holds, IInv, TypeOK
  <2>2. ASSUME NEW c \in Cell
        PROVE  Fresh(w, c)' <=> Fresh(w, c)
    BY <1>1, <1>4 DEF Fresh, At
  <2>3. ASSUME NEW v \in Worker, NEW c \in Cell, v # w
        PROVE  (Holds(v, c)' <=> Holds(v, c)) /\ (Fresh(v, c)' <=> Fresh(v, c))
    BY <2>3, <1>4 DEF Holds, Fresh, At
  <2> QED BY <2>1, <2>2, <2>3
<1>12. Carried'
  BY <1>1, <1>2, <1>4 DEF IInv, TypeOK, Carried, Pushing
<1>13. Tickets'
  <2>1. \A v \in Worker : At(v, "publish")' => At(v, "publish") /\ v # w
    BY <1>4 DEF At
  <2>2. \A v \in Worker : t[v] \in Nat
    BY DEF IInv, TypeOK
  <2> QED BY <1>1, <1>4, <1>5, <1>6, <2>1, <2>2 DEF IInv, Tickets, GP
<1>14. Flags'
  <2>1. \A v \in Worker : At(v, "clear") => At(v, "clear")'
    BY <1>1, <1>4 DEF At
  <2>2. \A s \in Slot : flag'[s] <=> flag[s] \/ s = GP(t[w])
    BY <1>1, <1>2 DEF IInv, TypeOK
  <2>3. \A k \in Queued : GP(k) \in Slot
    BY <1>5, SlotOfTicket
  <2>4. FlagMarksUse'
    BY <1>5, <1>9, <2>2, <2>3 DEF IInv, Flags, FlagMarksUse, GP
  <2>5. \A k \in Queued : ~Pending(k)' => queue[GP(k)] \in Cell
    BY <1>2, <1>5, <1>9 DEF IInv, Flags
  <2>6. ASSUME NEW s \in Slot, flag'[s]
        PROVE  \/ \E k \in Queued : ~Pending(k)' /\ GP(k) = s
               \/ \E v \in Worker : At(v, "clear")' /\ GP(h[v]) = s
    <3>1. CASE s = GP(t[w])
      BY <3>1, <1>2, <1>5, <1>9
    <3>2. CASE flag[s]
      BY <3>2, <2>1, <1>5, <1>9 DEF IInv, Flags
    <3> QED BY <2>2, <2>6, <3>1, <3>2
  <2> QED BY <1>1, <1>5, <2>4, <2>5, <2>6 DEF Flags, GP, Slot
<1>15. Clearing'
  BY <1>1, <1>4 DEF IInv, Clearing, NoLap, At
<1>16. Checked'
  <2>1. \A v \in Worker : pc'[v] \in Popping => pc[v] = pc'[v] /\ v # w
    BY <1>4 DEF Popping
  <2> QED BY <1>1, <1>4, <1>9, <2>1
          DEF IInv, TypeOK, Checked, Popping, At, GP
<1>17. OnePlace' /\ MutualExclusion' /\ OnlyLive' /\ NoCellLost'
  <2>1. live \subseteq Cell
    BY DEF IInv, TypeOK
  <2> QED BY <2>1, <1>1, <1>5, <1>10, <1>11
          DEF IInv, OnePlace, MutualExclusion, OnlyLive, NoCellLost
<1> QED BY <1>3, <1>12, <1>13, <1>14, <1>15, <1>16, <1>17 DEF IInv

-----------------------------------------------------------------------------
(* The theorems                                                            *)

\* One case per action.
LEMMA NextInvariant == IInv /\ [Next /\ NoLap']_vars => IInv'
<1> SUFFICES ASSUME IInv, [Next /\ NoLap']_vars PROVE IInv'
  OBVIOUS
<1>1. CASE UNCHANGED vars
  BY <1>1
     DEF vars, ring, locals, IInv, TypeOK, Carried, Tickets, Flags,
         FlagMarksUse, Clearing, NoLap, Checked, OnePlace, MutualExclusion,
         OnlyLive, NoCellLost, Holds, Fresh, Draws, Pending, Stands, Queued,
         At, GP, Slot
<1>2. ASSUME NEW w \in Worker, Pop(w) PROVE IInv'
  BY <1>2, LoadHeadStep, CheckTailStep, CheckFlagStep, ReadSlotStep,
     CasHeadStep, ClearFlagStep DEF Pop
<1>3. ASSUME NEW w \in Worker, Dispatch(w) PROVE IInv'
  BY <1>3, RetireStep, PushBackStep, StartStep DEF Dispatch
<1>4. ASSUME NEW w \in Worker, Push(w), NoLap' PROVE IInv'
  BY <1>4, TakeTicketStep, StoreCellStep, PublishStep DEF Push
<1> QED BY <1>1, <1>2, <1>3, <1>4 DEF Next

(* While no worker is lapped, the inductive invariant holds.               *)
THEOREM Invariance == TimelySpec => []IInv
<1>1. Init => IInv
  BY InitInvariant
<1>2. IInv /\ [Next /\ NoLap']_vars => IInv'
  BY NextInvariant
<1> QED BY <1>1, <1>2, PTL DEF TimelySpec

(* Every variable of the ring and of its workers keeps its type.           *)
THEOREM TypeCorrect == TimelySpec => []TypeOK
<1>1. IInv => TypeOK
  BY DEF IInv
<1> QED BY <1>1, Invariance, PTL

(* No cell is ever run by two workers: a lua_State is single threaded.     *)
THEOREM Exclusive == TimelySpec => []MutualExclusion
<1>1. IInv => MutualExclusion
  BY DEF IInv
<1> QED BY <1>1, Invariance, PTL

(* No cell that has not quit disappears from the ring and the workers.     *)
THEOREM NothingLost == TimelySpec => []NoCellLost
<1>1. IInv => NoCellLost
  BY DEF IInv
<1> QED BY <1>1, Invariance, PTL

(* The flag of every slot in use is raised, as the comment on flag says:   *)
(* a lapped worker would clear the flag of a slot that is in use again.    *)
THEOREM FlagMarks == TimelySpec => []FlagMarksUse
<1>1. IInv => FlagMarksUse
  BY DEF IInv, Flags
<1> QED BY <1>1, Invariance, PTL

-----------------------------------------------------------------------------
(***************************************************************************)
(* The lock-free ring implements RunQueue: read from head to tail, its     *)
(* queued tickets are one first-in first-out line, which grows when a push *)
(* draws its ticket and shrinks when a pop's compare-and-swap succeeds.    *)
(*                                                                         *)
(* The argument.  A queued ticket stands for exactly one cell (OneEach),   *)
(* so the line is determined by Stands (LineOf) and the running cells by   *)
(* Holds (RunBy).  Each action then changes the line at one end or leaves  *)
(* it alone; the invariant IInv gives what RunQueue demands of the cell: a *)
(* popped one stands under the head, a launched one is nowhere yet.        *)
(***************************************************************************)

\* A queued ticket stands for one cell: the one that its push carries, or the one
\* in its slot.
LEMMA OneEach ==
  IInv => \A k \in Queued :
            /\ \E c \in Cell : Stands(k, c)
            /\ \A c, d \in Cell : Stands(k, c) /\ Stands(k, d) => c = d
<1> SUFFICES ASSUME IInv, NEW k \in Queued
             PROVE  /\ \E c \in Cell : Stands(k, c)
                    /\ \A c, d \in Cell : Stands(k, c) /\ Stands(k, d) => c = d
  OBVIOUS
<1>1. CASE Pending(k)
  <2>1. PICK w \in Worker : Draws(w, k)
    BY <1>1 DEF Pending
  <2>2. item[w] \in Cell
    BY <2>1 DEF Draws, IInv, Carried, Pushing
  <2>3. \A v \in Worker : Draws(v, k) => v = w
    BY <2>1 DEF IInv, Tickets, Draws
  <2> QED BY <1>1, <2>1, <2>2, <2>3 DEF Stands
<1>2. CASE ~Pending(k)
  BY <1>2 DEF IInv, Flags, Stands, Pending
<1> QED BY <1>1, <1>2

\* The line as a sequence of cells, and who is at each place.
LineHolds ==
  /\ head \in Nat /\ tail \in Nat /\ tail - head \in Nat
  /\ waiting \in Seq(Cell)
  /\ Len(waiting) = tail - head
  /\ \A k \in Queued, c \in Cell : waiting[k - head + 1] = c <=> Stands(k, c)

\* What the refinement mapping reads is such a line.
LEMMA LineOf == IInv => LineHolds
<1> SUFFICES ASSUME IInv PROVE LineHolds
  OBVIOUS
<1> DEFINE n == tail - head
<1>1. head \in Nat /\ tail \in Nat /\ n \in Nat
  BY DEF IInv, TypeOK, Tickets
<1>2. \A i \in 1 .. n : head + i - 1 \in Queued
  BY <1>1 DEF Queued
<1>3. \A i \in 1 .. n : waiting[i] \in Cell /\ Stands(head + i - 1, waiting[i])
  BY <1>2, OneEach DEF waiting
<1>4. waiting \in [1 .. n -> Cell]
  BY <1>3 DEF waiting
<1>5. waiting \in Seq(Cell)
  BY <1>1, <1>4
<1>6. DOMAIN waiting = 1 .. n /\ DOMAIN waiting = 1 .. Len(waiting) /\ Len(waiting) \in Nat
  BY <1>4, <1>5, LenProperties
<1>7. Len(waiting) = n
  BY <1>1, <1>6
<1>8. ASSUME NEW k \in Queued, NEW c \in Cell
      PROVE  waiting[k - head + 1] = c <=> Stands(k, c)
  <2>1. k - head + 1 \in 1 .. n /\ head + (k - head + 1) - 1 = k
    BY <1>1 DEF Queued
  <2>2. waiting[k - head + 1] \in Cell /\ Stands(k, waiting[k - head + 1])
    BY <2>1, <1>3
  <2> QED BY <2>2, OneEach
<1> QED BY <1>1, <1>5, <1>7, <1>8 DEF LineHolds

\* A worker runs the cell that it holds.
LEMMA RunBy ==
  IInv => /\ running \in [Worker -> Cell \union {NoCell}]
          /\ \A w \in Worker, c \in Cell : running[w] = c <=> Holds(w, c)
  BY RingAssumption DEF IInv, TypeOK, running, Holds

\* What leaves the queued tickets and their cells alone leaves the line alone.
LEMMA SameLine ==
  ASSUME IInv, IInv', head' = head, tail' = tail,
         \A k \in Queued, c \in Cell : Stands(k, c)' <=> Stands(k, c)
  PROVE  waiting' = waiting
<1>1. (IInv => LineHolds)'
  BY LineOf, PTL
<1>2. LineHolds /\ LineHolds'
  BY LineOf, <1>1
<1>3. ASSUME NEW i \in 1 .. tail - head PROVE waiting'[i] = waiting[i]
  <2> DEFINE k == head + i - 1
  <2>1. k \in Queued /\ k \in Queued' /\ k - head + 1 = i
    BY <1>2 DEF LineHolds, Queued
  <2>2. waiting[i] \in Cell /\ waiting'[i] \in Cell
    BY <1>2, ElementOfSeq DEF LineHolds
  <2>3. Stands(k, waiting[i])
    BY <1>2, <2>1, <2>2 DEF LineHolds
  <2> QED BY <1>2, <2>1, <2>2, <2>3 DEF LineHolds
<1> QED BY <1>2, <1>3, SeqEqual DEF LineHolds

\* What leaves the holders alone leaves the running cells alone.
LEMMA SameRun ==
  ASSUME IInv, IInv',
         \A w \in Worker, c \in Cell : Holds(w, c)' <=> Holds(w, c)
  PROVE  running' = running
<1>1. (IInv => /\ running \in [Worker -> Cell \union {NoCell}]
               /\ \A w \in Worker, c \in Cell : running[w] = c <=> Holds(w, c))'
  BY RunBy, PTL
<1>2. \A w \in Worker, c \in Cell : running'[w] = c <=> running[w] = c
  BY <1>1, RunBy
<1>3. /\ running \in [Worker -> Cell \union {NoCell}]
      /\ running' \in [Worker -> Cell \union {NoCell}]
  BY <1>1, RunBy
<1>4. \A w \in Worker : running'[w] = running[w]
  BY <1>2, <1>3
<1> QED BY <1>3, <1>4

\* In the initial state the line is Boot and nobody runs a cell.
LEMMA LineInit == Init => Line!Init
<1> SUFFICES ASSUME Init PROVE Line!Init
  OBVIOUS
<1>1. IInv
  BY InitInvariant
<1>2. LineHolds
  BY <1>1, LineOf
<1> DEFINE n == Len(Boot)
<1>3. Boot \in Seq(Cell) /\ n \in Nat /\ head = 0 /\ tail = n
  BY BootAssumption DEF Init
<1>4. n < MAX_GLOBAL_MQ
  <2>1. tail < head + MAX_GLOBAL_MQ
    BY <1>1, Room DEF IInv
  <2> QED BY <2>1, <1>3, RingAssumption
<1>5. ASSUME NEW i \in 1 .. n PROVE waiting[i] = Boot[i]
  <2>1. i - 1 \in Queued /\ i - 1 - head + 1 = i
    BY <1>3 DEF Queued
  <2>2. GP(i - 1) = i - 1 /\ i - 1 \in Slot /\ i - 1 < n
    BY <1>3, <1>4, RingAssumption DEF GP, Slot
  <2>3. queue[i - 1] = Boot[i]
    BY <2>2 DEF Init
  <2>4. ~Pending(i - 1)
    BY DEF Init, Pending, Draws
  <2>5. Boot[i] \in Cell
    BY <1>3, ElementOfSeq
  <2>6. Stands(i - 1, Boot[i])
    BY <2>2, <2>3, <2>4 DEF Stands
  <2> QED BY <1>2, <2>1, <2>5, <2>6 DEF LineHolds
<1>6. waiting = Boot
  BY <1>2, <1>3, <1>5, SeqEqual DEF LineHolds
<1>7. running = [w \in Worker |-> NoCell]
  BY DEF Init, running
<1> QED BY <1>6, <1>7 DEF Line!Init

-----------------------------------------------------------------------------
(* Steps that RunQueue does not see                                        *)

\* A pop's reads, its clearing of the flag, and its return with nothing.
LEMMA PopIsSilent ==
  ASSUME IInv, IInv', NEW w \in Worker,
         \/ LoadHead(w) \/ CheckTail(w) \/ CheckFlag(w) \/ ReadSlot(w) \/ ClearFlag(w)
         \/ CasHead(w) /\ head # h[w]
  PROVE  waiting' = waiting /\ running' = running
<1>1. /\ head' = head /\ tail' = tail /\ queue' = queue /\ item' = item /\ t' = t
      /\ \A v \in Worker \ {w} : pc'[v] = pc[v] /\ cell'[v] = cell[v]
      /\ pc[w] \in {"idle", "clear"} \union Popping
      /\ pc[w] = "clear" => pc'[w] = "run" /\ cell'[w] = cell[w]
      /\ pc[w] # "clear" => pc'[w] \in {"idle"} \union Popping
  BY DEF IInv, TypeOK, LoadHead, CheckTail, CheckFlag, ReadSlot, ClearFlag, CasHead,
         Popping, At, Goto, ring
<1>2. \A v \in Worker, c \in Cell : Holds(v, c)' <=> Holds(v, c)
  BY <1>1 DEF Holds, Popping
<1>3. \A v \in Worker, k \in Queued : Draws(v, k)' <=> Draws(v, k)
  BY <1>1 DEF Draws, Popping
<1>4. \A k \in Queued : Pending(k)' <=> Pending(k)
  BY <1>3 DEF Pending
<1>5. \A k \in Queued, c \in Cell : Stands(k, c)' <=> Stands(k, c)
  BY <1>1, <1>3, <1>4 DEF Stands, GP
<1> QED BY <1>1, <1>2, <1>5, SameLine, SameRun

\* A worker that is about to push a cell still holds its own.
LEMMA DispatchIsSilent ==
  ASSUME IInv, IInv', NEW w \in Worker,
         PushBack(w) \/ \E n \in Cell : Start(w, n)
  PROVE  waiting' = waiting /\ running' = running
<1>1. /\ head' = head /\ tail' = tail /\ queue' = queue /\ cell' = cell /\ t' = t
      /\ \A v \in Worker \ {w} : pc'[v] = pc[v] /\ item'[v] = item[v]
      /\ pc[w] = "run" /\ pc'[w] = "ticket"
  BY DEF IInv, TypeOK, PushBack, Start, At, Goto, ring
<1>2. \A v \in Worker, c \in Cell : Holds(v, c)' <=> Holds(v, c)
  BY <1>1 DEF Holds
<1>3. \A v \in Worker, k \in Queued : Draws(v, k)' <=> Draws(v, k)
  BY <1>1 DEF Draws
<1>4. \A k \in Queued : Pending(k)' <=> Pending(k)
  BY <1>3 DEF Pending
<1>5. \A k \in Queued, c \in Cell : Stands(k, c)' <=> Stands(k, c)
  BY <1>1, <1>3, <1>4 DEF Stands, GP, Draws
<1> QED BY <1>1, <1>2, <1>5, SameLine, SameRun

\* The cell of a ticket goes from its pusher to its slot and is published there:
\* the line has it already.
LEMMA StoreIsSilent ==
  ASSUME IInv, IInv', NEW w \in Worker, StoreCell(w)
  PROVE  waiting' = waiting /\ running' = running
<1>1. /\ head' = head /\ tail' = tail /\ cell' = cell /\ item' = item /\ t' = t
      /\ queue' = [queue EXCEPT ![GP(t[w])] = item[w]]
      /\ \A v \in Worker \ {w} : pc'[v] = pc[v]
      /\ pc[w] = "store" /\ pc'[w] = "publish"
  BY DEF IInv, TypeOK, StoreCell, At, Goto
<1>2. \A v \in Worker, c \in Cell : Holds(v, c)' <=> Holds(v, c)
  BY <1>1 DEF Holds
<1>3. \A v \in Worker, k \in Queued : Draws(v, k)' <=> Draws(v, k)
  BY <1>1 DEF Draws
<1>4. \A k \in Queued : Pending(k)' <=> Pending(k)
  BY <1>3 DEF Pending
<1>5. ASSUME NEW k \in Queued, ~Pending(k) PROVE queue'[GP(k)] = queue[GP(k)]
  <2>1. Draws(w, t[w]) /\ t[w] \in Queued /\ t[w] # k
    BY <1>1, <1>5 DEF Draws, IInv, Tickets, Pending
  <2>2. GP(t[w]) # GP(k)
    BY <2>1, QueuedApart
  <2> QED BY <1>1, <2>2 DEF IInv, TypeOK
<1>6. \A k \in Queued, c \in Cell : Stands(k, c)' <=> Stands(k, c)
  BY <1>1, <1>3, <1>4, <1>5 DEF Stands, GP
<1> QED BY <1>1, <1>2, <1>6, SameLine, SameRun

\* A push has taken effect before it raises its flag.
LEMMA PublishIsSilent ==
  ASSUME IInv, IInv', NEW w \in Worker, Publish(w)
  PROVE  waiting' = waiting /\ running' = running
<1>1. /\ head' = head /\ tail' = tail /\ queue' = queue /\ t' = t
      /\ \A v \in Worker \ {w} : pc'[v] = pc[v] /\ cell'[v] = cell[v] /\ item'[v] = item[v]
      /\ pc[w] = "publish" /\ pc'[w] \in {"idle", "run"}
      /\ item[w] = cell[w] => pc'[w] = "idle"
      /\ item[w] # cell[w] => pc'[w] = "run" /\ cell'[w] = cell[w]
  BY DEF IInv, TypeOK, Publish, At, Goto
<1>2. \A v \in Worker, c \in Cell : Holds(v, c)' <=> Holds(v, c)
  BY <1>1 DEF Holds
<1>3. /\ Draws(w, t[w]) /\ t[w] \in Queued
      /\ queue[GP(t[w])] = item[w] /\ item[w] \in Cell
      /\ \A v \in Worker : Draws(v, t[w]) => v = w
  BY <1>1 DEF IInv, Tickets, Carried, Pushing, Draws, At
<1>4. \A v \in Worker, k \in Queued : Draws(v, k)' <=> Draws(v, k) /\ v # w
  BY <1>1 DEF Draws
<1>5. ASSUME NEW k \in Queued, NEW c \in Cell PROVE Stands(k, c)' <=> Stands(k, c)
  <2>1. CASE k = t[w]
    <3>1. \A v \in Worker : ~Draws(v, k)'
      BY <2>1, <1>3, <1>4
    <3>2. ~Pending(k)'
      BY <3>1 DEF Pending
    <3>3. Stands(k, c)' <=> c = item[w]
      BY <2>1, <3>1, <3>2, <1>1, <1>3 DEF Stands, GP
    <3>4. Stands(k, c) <=> c = item[w]
      BY <2>1, <1>3 DEF Stands, Pending
    <3> QED BY <3>3, <3>4
  <2>2. CASE k # t[w]
    <3>1. ~Draws(w, k)
      BY <2>2 DEF Draws
    <3>2. \A v \in Worker : Draws(v, k)' <=> Draws(v, k)
      BY <3>1, <1>4
    <3>3. Pending(k)' <=> Pending(k)
      BY <3>2 DEF Pending
    <3> QED BY <1>1, <3>1, <3>2, <3>3 DEF Stands, GP
  <2> QED BY <2>1, <2>2
<1> QED BY <1>1, <1>2, <1>5, SameLine, SameRun

-----------------------------------------------------------------------------
(* Steps of the line                                                       *)

\* The compare-and-swap that succeeds takes the first cell of the line.
LEMMA CasTakes ==
  ASSUME IInv, IInv', NEW w \in Worker, CasHead(w), head = h[w]
  PROVE  Line!Take(w)
<1>1. /\ head' = head + 1 /\ UNCHANGED <<tail, queue, cell, item, t>>
      /\ \A v \in Worker \ {w} : pc'[v] = pc[v]
      /\ pc[w] = "cas" /\ pc'[w] = "clear"
  BY DEF IInv, TypeOK, CasHead, At, Goto
<1>2. (IInv => LineHolds)'
  BY LineOf, PTL
<1>3. LineHolds /\ LineHolds'
  BY LineOf, <1>2
<1>4. /\ head \in Queued /\ head \in Nat /\ tail \in Nat /\ head < tail
      /\ ~Pending(head) /\ cell[w] = queue[GP(head)]
  BY <1>1 DEF IInv, TypeOK, Checked, Queued, At
<1>5. cell[w] \in Cell /\ Stands(head, cell[w])
  BY <1>4 DEF IInv, Flags, Stands
<1>6. \A v \in Worker, k \in Queued : Draws(v, k)' <=> Draws(v, k)
  BY <1>1 DEF Draws
<1>7. \A k \in Queued : Pending(k)' <=> Pending(k)
  BY <1>6 DEF Pending
<1>8. \A k \in Queued, c \in Cell : Stands(k, c)' <=> Stands(k, c)
  BY <1>1, <1>6, <1>7 DEF Stands, GP
<1>9. waiting # <<>> /\ Head(waiting) = cell[w]
  <2>1. Len(waiting) >= 1 /\ head - head + 1 = 1
    BY <1>3, <1>4 DEF LineHolds
  <2>2. waiting # <<>>
    BY <2>1, <1>3, EmptySeq DEF LineHolds
  <2>3. waiting[1] = cell[w]
    BY <1>3, <1>4, <1>5, <2>1 DEF LineHolds
  <2> QED BY <2>2, <2>3, <1>3, HeadTailProperties DEF LineHolds
<1>10. waiting' = Tail(waiting)
  <2>1. /\ Tail(waiting) \in Seq(Cell)
        /\ Len(Tail(waiting)) = Len(waiting) - 1
        /\ \A i \in 1 .. Len(waiting) - 1 : Tail(waiting)[i] = waiting[i + 1]
    BY <1>3, <1>9, HeadTailProperties DEF LineHolds
  <2>2. Len(waiting') = Len(waiting) - 1 /\ waiting' \in Seq(Cell)
    BY <1>1, <1>3, <1>4 DEF LineHolds
  <2>3. ASSUME NEW i \in 1 .. Len(waiting) - 1 PROVE waiting'[i] = waiting[i + 1]
    <3> DEFINE k == head + i
    <3>1. /\ k \in Queued /\ k \in Queued'
          /\ k - head + 1 = i + 1 /\ k - head' + 1 = i /\ i + 1 \in 1 .. Len(waiting)
      <4>1. /\ Len(waiting) = tail - head /\ head \in Nat /\ tail \in Nat
            /\ head' = head + 1 /\ tail' = tail
        BY <1>1, <1>3 DEF LineHolds
      <4>2. i \in Nat /\ 1 <= i /\ i <= tail - head - 1
        BY <4>1
      <4>3. Queued' = head + 1 .. tail - 1
        BY <4>1 DEF Queued
      <4>4. k \in head .. tail - 1 /\ k \in head + 1 .. tail - 1
        BY <4>1, <4>2
      <4>5. k - head + 1 = i + 1 /\ k - head' + 1 = i
        BY <4>1, <4>2
      <4>6. i + 1 \in 1 .. Len(waiting)
        BY <4>1, <4>2
      <4> QED BY <4>3, <4>4, <4>5, <4>6 DEF Queued
    <3>2. waiting[i + 1] \in Cell
      BY <1>3, <3>1, ElementOfSeq DEF LineHolds
    <3>3. Stands(k, waiting[i + 1])
      BY <1>3, <3>1, <3>2 DEF LineHolds
    <3> QED BY <1>3, <3>1, <3>2, <3>3, <1>8 DEF LineHolds
  <2> QED BY <2>1, <2>2, <2>3, SeqEqual
<1>11. running[w] = NoCell /\ running' = [running EXCEPT ![w] = cell[w]]
  <2>1. ~Holds(w, cell[w])
    BY <1>1 DEF Holds
  <2>2. Holds(w, cell[w])'
    BY <1>1 DEF Holds
  <2>3. \A v \in Worker \ {w} : running'[v] = running[v]
    BY <1>1 DEF running, Holds
  <2> QED BY <1>1, <2>1, <2>2, <2>3 DEF running
<1> QED BY <1>9, <1>10, <1>11 DEF Line!Take

\* A cell that has quit is run no more.
LEMMA RetireRetires ==
  ASSUME IInv, IInv', NEW w \in Worker, Retire(w)
  PROVE  Line!Retire(w)
<1>1. /\ head' = head /\ tail' = tail /\ queue' = queue /\ item' = item /\ t' = t
      /\ \A v \in Worker \ {w} : pc'[v] = pc[v] /\ cell'[v] = cell[v]
      /\ pc[w] = "run" /\ pc'[w] = "idle"
  BY DEF IInv, TypeOK, Retire, At, Goto, ring
<1>2. \A v \in Worker, k \in Queued : Draws(v, k)' <=> Draws(v, k)
  BY <1>1 DEF Draws
<1>3. \A k \in Queued : Pending(k)' <=> Pending(k)
  BY <1>2 DEF Pending
<1>4. \A k \in Queued, c \in Cell : Stands(k, c)' <=> Stands(k, c)
  BY <1>1, <1>2, <1>3 DEF Stands, GP
<1>5. waiting' = waiting
  BY <1>1, <1>4, SameLine
<1>6. running[w] # NoCell
  BY <1>1, RingAssumption DEF running, Holds, IInv, Carried, At
<1>7. running' = [running EXCEPT ![w] = NoCell]
  <2>1. ~Holds(w, cell[w])'
    BY <1>1 DEF Holds
  <2>2. \A v \in Worker \ {w} : running'[v] = running[v]
    BY <1>1 DEF running, Holds
  <2> QED BY <2>1, <2>2 DEF running
<1> QED BY <1>5, <1>6, <1>7 DEF Line!Retire

\* A ticket puts the pushed cell at the end of the line: its own when the worker
\* has done with it, and otherwise one that it launches, which is nowhere yet.
LEMMA TicketJoins ==
  ASSUME IInv, IInv', NEW w \in Worker, TakeTicket(w)
  PROVE  Line!Put(w) \/ \E n \in Cell : Line!Launch(w, n)
<1>1. /\ head' = head /\ tail' = tail + 1 /\ UNCHANGED <<queue, cell, item>>
      /\ \A v \in Worker \ {w} : pc'[v] = pc[v] /\ t'[v] = t[v]
      /\ pc[w] = "ticket" /\ pc'[w] = "store" /\ t'[w] = tail
  BY DEF IInv, TypeOK, TakeTicket, At, Goto
<1>2. (IInv => LineHolds)'
  BY LineOf, PTL
<1>3. LineHolds /\ LineHolds'
  BY LineOf, <1>2
<1>4. cell[w] \in Cell /\ item[w] \in Cell
  BY <1>1 DEF IInv, Carried, Pushing
<1>5. /\ head \in Nat /\ tail \in Nat /\ head <= tail
      /\ tail \notin Queued /\ Queued' = Queued \union {tail} /\ tail \in Queued'
  BY <1>1 DEF IInv, TypeOK, Tickets, Queued
<1>6. \A v \in Worker, k \in Queued : Draws(v, k)' <=> Draws(v, k)
  BY <1>1, <1>5 DEF Draws
<1>7. \A k \in Queued : Pending(k)' <=> Pending(k)
  BY <1>6 DEF Pending
<1>8. \A k \in Queued, c \in Cell : Stands(k, c)' <=> Stands(k, c)
  BY <1>1, <1>6, <1>7 DEF Stands, GP
<1>9. ASSUME NEW k, k = tail PROVE Stands(k, item[w])'
  BY <1>1, <1>9 DEF Stands, Draws
<1>10. waiting' = Append(waiting, item[w])
  <2> DEFINE n == Len(waiting)
  <2>1. /\ n \in Nat /\ n = tail - head
        /\ waiting \in Seq(Cell) /\ waiting' \in Seq(Cell) /\ Len(waiting') = n + 1
    BY <1>1, <1>3 DEF LineHolds
  <2>2. /\ Append(waiting, item[w]) \in Seq(Cell)
        /\ Len(Append(waiting, item[w])) = n + 1
        /\ \A i \in 1 .. n : Append(waiting, item[w])[i] = waiting[i]
        /\ Append(waiting, item[w])[n + 1] = item[w]
    BY <2>1, <1>4, AppendProperties
  <2>3. ASSUME NEW i \in 1 .. n PROVE waiting'[i] = waiting[i]
    <3> DEFINE k == head + i - 1
    <3>1. k \in Queued /\ k \in Queued' /\ k - head + 1 = i /\ k - head' + 1 = i
      BY <1>1, <1>5, <2>1 DEF Queued
    <3>2. waiting[i] \in Cell
      BY <2>1, ElementOfSeq
    <3>3. Stands(k, waiting[i])
      BY <1>3, <3>1, <3>2 DEF LineHolds
    <3> QED BY <1>3, <1>8, <3>1, <3>2, <3>3 DEF LineHolds
  <2>4. waiting'[n + 1] = item[w]
    <3> DEFINE k == tail
    <3>1. k \in Queued' /\ k - head' + 1 = n + 1
      BY <1>1, <1>5, <2>1
    <3> QED BY <1>1, <1>3, <1>4, <1>9, <3>1 DEF LineHolds
  <2>5. \A i \in 1 .. n + 1 : waiting'[i] = Append(waiting, item[w])[i]
    BY <2>1, <2>2, <2>3, <2>4
  <2> QED BY <2>1, <2>2, <2>5, SeqEqual
<1>11. Holds(w, cell[w]) /\ running[w] = cell[w] /\ running[w] # NoCell
  BY <1>1, <1>4, RingAssumption DEF Holds, running
<1>12. \A v \in Worker \ {w} : running'[v] = running[v]
  BY <1>1 DEF running, Holds
<1>13. CASE item[w] = cell[w]
  <2>1. ~Holds(w, cell[w])'
    BY <1>1, <1>13 DEF Holds
  <2>2. running' = [running EXCEPT ![w] = NoCell]
    BY <1>12, <2>1 DEF running
  <2> QED BY <1>10, <1>11, <1>13, <2>2 DEF Line!Put
<1>14. CASE item[w] # cell[w]
  <2>1. Fresh(w, item[w])
    BY <1>1, <1>14 DEF Fresh, At
  <2>2. running'[w] = running[w]
    BY <1>1, <1>11, <1>14 DEF running, Holds
  <2>3. running' = running
    BY <1>12, <2>2 DEF running
  <2>4. item[w] \notin Line!Busy
    <3>1. \A v \in Worker : ~Holds(v, item[w])
      BY <1>4, <2>1 DEF IInv, OnePlace
    <3> QED BY <1>4, <3>1, RunBy DEF Line!Busy
  <2>5. item[w] \notin Line!InLine
    <3>1. SUFFICES ASSUME NEW i \in DOMAIN waiting, waiting[i] = item[w] PROVE FALSE
      BY DEF Line!InLine
    <3> DEFINE k == head + i - 1
    <3>2. i \in 1 .. tail - head
      BY <1>3, LenProperties DEF LineHolds
    <3>3. k \in Queued /\ k - head + 1 = i
      BY <1>5, <3>2 DEF Queued
    <3>4. Stands(k, item[w])
      BY <1>3, <1>4, <3>1, <3>3 DEF LineHolds
    <3> QED BY <1>4, <2>1, <3>3, <3>4 DEF IInv, OnePlace
  <2> QED BY <1>4, <1>10, <1>11, <2>3, <2>4, <2>5 DEF Line!Launch
<1> QED BY <1>13, <1>14

-----------------------------------------------------------------------------
(* The theorem                                                             *)

\* Every step of the ring is a step of the line, or none.
LEMMA LineStep ==
  IInv /\ IInv' /\ [Next]_vars => [Line!Next]_(Line!vars)
<1> SUFFICES ASSUME IInv, IInv', [Next]_vars
             PROVE  [Line!Next]_(Line!vars)
  OBVIOUS
<1>1. CASE UNCHANGED vars
  <2>1. /\ head' = head /\ tail' = tail /\ queue' = queue /\ pc' = pc
        /\ cell' = cell /\ item' = item /\ t' = t
    BY <1>1 DEF vars, ring, locals
  <2>2. waiting' = waiting /\ running' = running
    BY <2>1 DEF waiting, running, Stands, Holds, Draws, Pending, GP
  <2> QED BY <2>2 DEF Line!vars
<1>2. ASSUME NEW w \in Worker, Pop(w) PROVE [Line!Next]_(Line!vars)
  <2>1. CASE CasHead(w) /\ head = h[w]
    BY <2>1, CasTakes DEF Line!Next
  <2>2. CASE ~(CasHead(w) /\ head = h[w])
    <3>1. waiting' = waiting /\ running' = running
      BY <1>2, <2>2, PopIsSilent DEF Pop
    <3> QED BY <3>1 DEF Line!vars
  <2> QED BY <2>1, <2>2
<1>3. ASSUME NEW w \in Worker, Dispatch(w) PROVE [Line!Next]_(Line!vars)
  <2>1. CASE Retire(w)
    BY <2>1, RetireRetires DEF Line!Next
  <2>2. CASE PushBack(w) \/ \E n \in Cell : Start(w, n)
    BY <2>2, DispatchIsSilent DEF Line!vars
  <2> QED BY <1>3, <2>1, <2>2 DEF Dispatch
<1>4. ASSUME NEW w \in Worker, Push(w) PROVE [Line!Next]_(Line!vars)
  <2>1. CASE TakeTicket(w)
    BY <2>1, TicketJoins DEF Line!Next
  <2>2. CASE StoreCell(w)
    BY <2>2, StoreIsSilent DEF Line!vars
  <2>3. CASE Publish(w)
    BY <2>3, PublishIsSilent DEF Line!vars
  <2> QED BY <1>4, <2>1, <2>2, <2>3 DEF Push
<1> QED BY <1>1, <1>2, <1>3, <1>4 DEF Next

\* While no worker is lapped, the ring that many workers push to and pop from
\* without a lock is one first-in first-out line (globalmq_push, globalmq_pop).
THEOREM Implementation == TimelySpec => ImplementsRunQueue
<1>1. IInv /\ [Next /\ NoLap']_vars => IInv'
  BY NextInvariant
<1>2. IInv /\ [Next /\ NoLap']_vars => [Line!Next]_(Line!vars)
  <2>1. [Next /\ NoLap']_vars => [Next]_vars
    OBVIOUS
  <2> QED BY <1>1, <2>1, LineStep
<1> QED BY Invariance, LineInit, <1>2, PTL DEF TimelySpec, ImplementsRunQueue, Line!Spec
=============================================================================
