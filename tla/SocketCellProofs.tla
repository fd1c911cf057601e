-------------------------- MODULE SocketCellProofs --------------------------
(***************************************************************************)
(* The invariants of the socket cell, for every number of slots, sockets,  *)
(* bytes and cells.                                                        *)
(*                                                                         *)
(* First the pool: what each of its functions does to the slots, said as   *)
(* OthersKept (a socket's slot changes) or Opens (a socket is added), with *)
(* PoolOK, the invariant of a pool in use, kept by each.  Then the bytes:  *)
(* what a split, an append or a buffer does to a sequence.                 *)
(* While the cell lives, IInv is Live.  Most steps change one socket and   *)
(* are instances of a lemma about such steps: ReadKeeps (what lpoll reads),*)
(* SlotKeeps (what is sent or written), ServedKeeps (a message closes or   *)
(* forwards), RoundKeeps (a result is passed on), OpensKeeps (a socket is  *)
(* opened).  There is one ...Keeps lemma for each action, and the          *)
(* exit, after which there is no pool any more, is dealt with at the end.  *)
(***************************************************************************)
EXTENDS SocketCell, DataLemmas, FiniteSetTheorems, TLAPS

-----------------------------------------------------------------------------
(* The pool                                                                *)

\* The types of a pool that is in use.
PoolTypes(p) ==
  /\ p = [s |-> p.s, id |-> p.id, count |-> p.count, ev |-> p.ev]
  /\ Cap(p) \in Nat \ {0} /\ p.s \in [0 .. Cap(p) - 1 -> SlotType]
  /\ p.id \in Nat \ {0} /\ p.count \in Nat
  /\ p.ev \in [DOMAIN p.ev -> BOOLEAN]

\* Each socket is in the slot that its id finds.
Placed(p) ==
  /\ \A n \in InUse(p) : p.s[n].id % Cap(p) = n /\ p.s[n].id \in 1 .. p.id - 1
  /\ \A n \in DOMAIN p.s \ InUse(p) : p.s[n].wb = <<>>

\* epoll watches the sockets.
EventsSet(p) ==
  /\ DOMAIN p.ev = {p.s[n].id : n \in InUse(p)}
  /\ \A n \in InUse(p) : /\ p.ev[p.s[n].id] <=> p.s[n].wb # <<>>
                         /\ p.s[n].status = "halfclose" => p.s[n].wb # <<>>

\* A pool in use.
PoolOK(p) ==
  /\ PoolTypes(p) /\ Placed(p) /\ EventsSet(p)
  /\ p.count = Cardinality(InUse(p))

\* q is p but for the slot of id, whose id stays.
OthersKept(p, q, id) ==
  /\ PoolOK(q)
  /\ q.id = p.id /\ Cap(q) = Cap(p)
  /\ \A w \in Nat : Slot(q, w).id = Slot(p, w).id
  /\ \A w \in DOMAIN p.ev \ {id} : Slot(q, w) = Slot(p, w)

\* The fields of a slot.
LEMMA SlotFields ==
  ASSUME NEW slot \in SlotType
  PROVE  /\ slot = [id |-> slot.id, status |-> slot.status, listen |-> slot.listen, wb |-> slot.wb]
         /\ slot.id \in Nat /\ slot.status \in {"invalid", "suspend", "halfclose"}
         /\ slot.listen \in BOOLEAN
         /\ slot.wb \in Seq(Seq(Nat) \ {<<>>})
BY DEF SlotType

\* The slots are 0 .. Cap(p) - 1, and the remainder of every id is one of them.
LEMMA PoolDomain ==
  ASSUME NEW p, PoolTypes(p)
  PROVE  /\ DOMAIN p.s = 0 .. Cap(p) - 1
         /\ \A n \in DOMAIN p.s : p.s[n] \in SlotType /\ p.s[n].id \in Nat
         /\ \A w \in Nat : w % Cap(p) \in DOMAIN p.s
         /\ IsFiniteSet(DOMAIN p.s) /\ IsFiniteSet(InUse(p))
         /\ InUse(p) \subseteq DOMAIN p.s
<1>1. DOMAIN p.s = 0 .. Cap(p) - 1 /\ \A n \in DOMAIN p.s : p.s[n] \in SlotType
  BY DEF PoolTypes
<1>2. \A n \in DOMAIN p.s : p.s[n].id \in Nat
  BY <1>1, SlotFields
<1>3. ASSUME NEW w \in Nat PROVE w % Cap(p) \in DOMAIN p.s
  <2>1. Cap(p) \in Nat \ {0}
    BY DEF PoolTypes
  <2> QED BY <1>1, <2>1, RemainderRange
<1>4. 0 \in Int /\ Cap(p) - 1 \in Int
  BY DEF PoolTypes
<1>5. IsFiniteSet(DOMAIN p.s)
  BY <1>1, <1>4, FS_Interval
<1>6. InUse(p) \subseteq DOMAIN p.s
  BY DEF InUse
<1>7. IsFiniteSet(InUse(p))
  BY <1>5, <1>6, FS_Subset
<1> QED BY <1>1, <1>2, <1>3, <1>5, <1>6, <1>7

\* The slot that the id of an open socket finds is that socket's, with a wish to write
\* exactly while there is something to write.
LEMMA SlotFound ==
  ASSUME NEW p, PoolOK(p), NEW id \in DOMAIN p.ev
  PROVE  /\ id % Cap(p) \in InUse(p) /\ id % Cap(p) \in DOMAIN p.s
         /\ Slot(p, id) = p.s[id % Cap(p)] /\ Slot(p, id) \in SlotType
         /\ Slot(p, id).id = id /\ Slot(p, id).status # "invalid"
         /\ id \in 1 .. p.id - 1 /\ id \in Nat
         /\ p.ev[id] <=> Slot(p, id).wb # <<>>
         /\ Slot(p, id).status = "halfclose" => Slot(p, id).wb # <<>>
<1>1. PICK n \in InUse(p) : p.s[n].id = id
  BY DEF PoolOK, EventsSet
<1>2. id % Cap(p) = n /\ id \in 1 .. p.id - 1
  BY <1>1 DEF PoolOK, Placed
<1>3. n \in DOMAIN p.s /\ p.s[n] \in SlotType /\ p.s[n].status # "invalid"
  BY <1>1, PoolDomain DEF PoolOK, InUse
<1>4. /\ p.ev[id] <=> p.s[n].wb # <<>>
      /\ p.s[n].status = "halfclose" => p.s[n].wb # <<>>
  BY <1>1 DEF PoolOK, EventsSet
<1>5. id \in Nat
  BY <1>2 DEF PoolOK, PoolTypes
<1> QED BY <1>1, <1>2, <1>3, <1>4, <1>5 DEF Slot

\* Conversely, a slot in use that bears an id is that of an open socket.
LEMMA SlotOpen ==
  ASSUME NEW p, PoolOK(p), NEW id \in Nat, Slot(p, id).id = id, Slot(p, id).status # "invalid"
  PROVE  id \in DOMAIN p.ev
<1>1. id % Cap(p) \in InUse(p)
  BY PoolDomain DEF PoolOK, InUse, Slot
<1> QED BY <1>1 DEF PoolOK, EventsSet, Slot

\* Open sockets have slots of their own.
LEMMA SlotsApart ==
  ASSUME NEW p, PoolOK(p), NEW v \in DOMAIN p.ev, NEW w \in DOMAIN p.ev, v # w
  PROVE  v % Cap(p) # w % Cap(p)
BY SlotFound

\* A socket's slot changes: its buffers, or its status.
Changed(p, id, slot) ==
  [s |-> [p.s EXCEPT ![id % Cap(p)] = slot], id |-> p.id, count |-> p.count,
   ev |-> [p.ev EXCEPT ![id] = (slot.wb # <<>>)]]

\* A new slot for an open socket, whose wish to write follows its buffers, keeps the pool.
LEMMA ChangedPool ==
  ASSUME NEW p, PoolOK(p), NEW id \in DOMAIN p.ev,
         NEW slot \in SlotType, slot.id = id, slot.status # "invalid",
         slot.status = "halfclose" => slot.wb # <<>>
  PROVE  /\ OthersKept(p, Changed(p, id, slot), id)
         /\ DOMAIN Changed(p, id, slot).ev = DOMAIN p.ev
         /\ Slot(Changed(p, id, slot), id) = slot
<1> DEFINE q == Changed(p, id, slot)
           m == id % Cap(p)
<1>1. /\ q.s = [p.s EXCEPT ![m] = slot] /\ q.id = p.id /\ q.count = p.count
      /\ q.ev = [p.ev EXCEPT ![id] = (slot.wb # <<>>)]
      /\ q = [s |-> q.s, id |-> q.id, count |-> q.count, ev |-> q.ev]
  BY DEF Changed
<1>2. /\ m \in InUse(p) /\ m \in DOMAIN p.s /\ p.s[m].id = id /\ id \in Nat
  BY SlotFound
<1>3. /\ PoolTypes(p) /\ Placed(p) /\ EventsSet(p) /\ p.count = Cardinality(InUse(p))
  BY DEF PoolOK
<1>4. /\ DOMAIN p.s = 0 .. Cap(p) - 1 /\ InUse(p) \subseteq DOMAIN p.s
      /\ \A n \in DOMAIN p.s : p.s[n] \in SlotType
      /\ \A w \in Nat : w % Cap(p) \in DOMAIN p.s
  BY <1>3, PoolDomain
<1> HIDE DEF q, m
<1>5. /\ DOMAIN q.s = DOMAIN p.s /\ Cap(q) = Cap(p)
      /\ q.s[m] = slot /\ \A n \in DOMAIN p.s \ {m} : q.s[n] = p.s[n]
      /\ DOMAIN q.ev = DOMAIN p.ev
      /\ q.ev[id] = (slot.wb # <<>>) /\ \A w \in DOMAIN p.ev \ {id} : q.ev[w] = p.ev[w]
  BY <1>1, <1>2 DEF Cap
<1>6. InUse(q) = InUse(p)
  BY <1>2, <1>5 DEF InUse
<1>7. \A n \in DOMAIN p.s : q.s[n].id = p.s[n].id
  BY <1>2, <1>5
<1>8. PoolTypes(q)
  <2>1. q.s \in [0 .. Cap(q) - 1 -> SlotType]
    BY <1>1, <1>4, <1>5
  <2>2. q.ev \in [DOMAIN q.ev -> BOOLEAN]
    <3>1. p.ev \in [DOMAIN p.ev -> BOOLEAN]
      BY <1>3 DEF PoolTypes
    <3> QED BY <1>1, <3>1
  <2> QED BY <1>1, <1>3, <1>5, <2>1, <2>2 DEF PoolTypes
<1>9. Placed(q)
  <2>1. ASSUME NEW n \in InUse(q)
        PROVE  q.s[n].id % Cap(q) = n /\ q.s[n].id \in 1 .. q.id - 1
    <3>1. q.s[n].id = p.s[n].id /\ n \in InUse(p)
      BY <1>4, <1>6, <1>7
    <3> QED BY <1>1, <1>3, <1>5, <3>1 DEF Placed
  <2>2. ASSUME NEW n \in DOMAIN q.s \ InUse(q) PROVE q.s[n].wb = <<>>
    <3>1. n # m /\ n \in DOMAIN p.s \ InUse(p)
      BY <1>2, <1>5, <1>6
    <3> QED BY <1>3, <1>5, <3>1 DEF Placed
  <2> QED BY <2>1, <2>2 DEF Placed
<1>10. EventsSet(q)
  <2>1. DOMAIN q.ev = {q.s[n].id : n \in InUse(q)}
    <3>1. DOMAIN p.ev = {p.s[n].id : n \in InUse(p)}
      BY <1>3 DEF EventsSet
    <3>2. \A n \in InUse(p) : q.s[n].id = p.s[n].id
      BY <1>4, <1>7
    <3>3. {q.s[n].id : n \in InUse(p)} = {p.s[n].id : n \in InUse(p)}
      BY <3>2
    <3> QED BY <1>5, <1>6, <3>1, <3>3
  <2>2. ASSUME NEW n \in InUse(q)
        PROVE  /\ q.ev[q.s[n].id] <=> q.s[n].wb # <<>>
               /\ q.s[n].status = "halfclose" => q.s[n].wb # <<>>
    <3>1. CASE n = m
      BY <1>5, <3>1
    <3>2. CASE n # m
      <4>1. n \in InUse(p) /\ n \in DOMAIN p.s /\ q.s[n] = p.s[n]
        BY <1>4, <1>5, <1>6, <3>2
      <4>2. p.s[n].id # id
        BY <1>2, <1>3, <3>2, <4>1 DEF Placed
      <4>3. p.s[n].id \in DOMAIN p.ev
        BY <1>3, <4>1 DEF EventsSet
      <4>4. q.ev[p.s[n].id] = p.ev[p.s[n].id]
        BY <1>5, <4>2, <4>3
      <4> QED BY <1>3, <4>1, <4>4 DEF EventsSet
    <3> QED BY <3>1, <3>2
  <2> QED BY <2>1, <2>2 DEF EventsSet
<1>11. PoolOK(q)
  BY <1>1, <1>3, <1>6, <1>8, <1>9, <1>10 DEF PoolOK
<1>12. \A w \in Nat : Slot(q, w).id = Slot(p, w).id
  BY <1>4, <1>5, <1>7 DEF Slot
<1>13. \A w \in DOMAIN p.ev \ {id} : Slot(q, w) = Slot(p, w)
  <2>1. ASSUME NEW w \in DOMAIN p.ev, w # id PROVE Slot(q, w) = Slot(p, w)
    <3>1. w % Cap(p) # m /\ w % Cap(p) \in DOMAIN p.s
      BY <2>1, SlotsApart, SlotFound DEF m
    <3> QED BY <1>5, <3>1 DEF Slot
  <2> QED BY <2>1
<1>14. Slot(q, id) = slot
  BY <1>5 DEF Slot, m
<1> QED BY <1>1, <1>5, <1>11, <1>12, <1>13, <1>14 DEF OthersKept, q

\* The fields of a pool.
IsPool(p) == p = [s |-> p.s, id |-> p.id, count |-> p.count, ev |-> p.ev]

\* The closing of a socket as a change of its slot.
Closed(s, m) == [[s EXCEPT ![m].status = "invalid"] EXCEPT ![m].wb = <<>>]

\* force_close, field by field.
LEMMA ForceCloseIs ==
  ASSUME NEW p, IsPool(p), NEW id
  PROVE  force_close(p, id)
           = [s |-> Closed(p.s, id % Cap(p)), id |-> p.id, count |-> p.count - 1,
              ev |-> [w \in DOMAIN p.ev \ {id} |-> p.ev[w]]]
<1> DEFINE s == p.s
           i == p.id
           c == p.count
           f == [w \in DOMAIN p.ev \ {id} |-> p.ev[w]]
           m == id % Cap(p)
           r == [s |-> s, id |-> i, count |-> c, ev |-> f]
           x == [[[r EXCEPT !.s[m].status = "invalid"] EXCEPT !.s[m].wb = <<>>]
                  EXCEPT !.count = @ - 1]
<1>1. sp_del(p, id) = r
  BY DEF sp_del, Restrict, IsPool
<1>2. force_close(p, id) = x
  <2> HIDE DEF s, i, c, f, m
  <2>1. id % Cap(p) = m
    BY DEF m
  <2> QED BY <1>1, <2>1 DEF force_close
<1> HIDE DEF s, i, c, f, m
<1>3. x = [s |-> Closed(s, m), id |-> i, count |-> c - 1, ev |-> f]
  <2>1. [r EXCEPT !.s[m].status = "invalid"]
        = [s |-> [s EXCEPT ![m].status = "invalid"], id |-> i, count |-> c, ev |-> f]
    OBVIOUS
  <2> DEFINE t == [s EXCEPT ![m].status = "invalid"]
             u == [s |-> t, id |-> i, count |-> c, ev |-> f]
  <2>2. [u EXCEPT !.s[m].wb = <<>>]
        = [s |-> [t EXCEPT ![m].wb = <<>>], id |-> i, count |-> c, ev |-> f]
    <3> HIDE DEF t
    <3> QED OBVIOUS
  <2> DEFINE v == [t EXCEPT ![m].wb = <<>>]
             y == [s |-> v, id |-> i, count |-> c, ev |-> f]
  <2>3. [y EXCEPT !.count = @ - 1] = [s |-> v, id |-> i, count |-> c - 1, ev |-> f]
    <3> HIDE DEF v
    <3> QED OBVIOUS
  <2>4. v = Closed(s, m)
    BY DEF Closed
  <2>5. x = [y EXCEPT !.count = @ - 1]
    <3>1. [r EXCEPT !.s[m].status = "invalid"] = u
      BY <2>1
    <3>2. [u EXCEPT !.s[m].wb = <<>>] = y
      BY <2>2
    <3> HIDE DEF r, u, y, v, t
    <3> QED BY <3>1, <3>2
  <2> HIDE DEF t, v
  <2> QED BY <2>3, <2>4, <2>5
<1> QED BY <1>2, <1>3 DEF s, i, c, f, m

\* force_close takes one socket away and touches no other.
LEMMA ForceCloseOf ==
  ASSUME NEW p, PoolOK(p), NEW id \in DOMAIN p.ev
  PROVE  /\ OthersKept(p, force_close(p, id), id)
         /\ DOMAIN force_close(p, id).ev = DOMAIN p.ev \ {id}
<1> DEFINE q == force_close(p, id)
           m == id % Cap(p)
           slot == [p.s[m] EXCEPT !.status = "invalid", !.wb = <<>>]
<1>2. /\ m \in InUse(p) /\ m \in DOMAIN p.s /\ p.s[m].id = id /\ id \in Nat
      /\ p.s[m] \in SlotType
  BY SlotFound
<1>3. /\ PoolTypes(p) /\ Placed(p) /\ EventsSet(p) /\ p.count = Cardinality(InUse(p))
  BY DEF PoolOK
<1>4. /\ DOMAIN p.s = 0 .. Cap(p) - 1 /\ InUse(p) \subseteq DOMAIN p.s
      /\ \A n \in DOMAIN p.s : p.s[n] \in SlotType
      /\ \A w \in Nat : w % Cap(p) \in DOMAIN p.s
      /\ IsFiniteSet(InUse(p))
  BY <1>3, PoolDomain
<1>1. /\ q = [s |-> [p.s EXCEPT ![m] = slot], id |-> p.id, count |-> p.count - 1,
              ev |-> [w \in DOMAIN p.ev \ {id} |-> p.ev[w]]]
  <2>1. IsPool(p)
    BY <1>3 DEF PoolTypes, IsPool
  <2> HIDE DEF m
  <2>2. Closed(p.s, m) = [p.s EXCEPT ![m] = slot]
    BY <1>2, <1>4 DEF Closed
  <2>3. q = [s |-> Closed(p.s, m), id |-> p.id, count |-> p.count - 1,
             ev |-> [w \in DOMAIN p.ev \ {id} |-> p.ev[w]]]
    BY <2>1, ForceCloseIs DEF m
  <2> QED BY <2>2, <2>3
<1>5. /\ slot \in SlotType /\ slot.id = id /\ slot.status = "invalid" /\ slot.wb = <<>>
  BY <1>2, EmptySeq DEF SlotType
<1> HIDE DEF q, m, slot
<1>6. /\ q.s = [p.s EXCEPT ![m] = slot] /\ q.id = p.id /\ q.count = p.count - 1
      /\ q.ev = [w \in DOMAIN p.ev \ {id} |-> p.ev[w]]
      /\ q = [s |-> q.s, id |-> q.id, count |-> q.count, ev |-> q.ev]
  BY <1>1
<1>7. /\ DOMAIN q.s = DOMAIN p.s /\ Cap(q) = Cap(p)
      /\ q.s[m] = slot /\ \A n \in DOMAIN p.s \ {m} : q.s[n] = p.s[n]
      /\ DOMAIN q.ev = DOMAIN p.ev \ {id}
      /\ \A w \in DOMAIN p.ev \ {id} : q.ev[w] = p.ev[w]
  BY <1>2, <1>6 DEF Cap
<1>8. InUse(q) = InUse(p) \ {m}
  BY <1>2, <1>5, <1>7 DEF InUse
<1>9. \A n \in DOMAIN p.s : q.s[n].id = p.s[n].id
  BY <1>2, <1>5, <1>7
<1>10. q.count = Cardinality(InUse(q)) /\ q.count \in Nat
  <2>1. Cardinality(InUse(q)) = Cardinality(InUse(p)) - 1 /\ IsFiniteSet(InUse(q))
    BY <1>2, <1>4, <1>8, FS_RemoveElement
  <2>2. Cardinality(InUse(q)) \in Nat
    BY <2>1, FS_CardinalityType
  <2> QED BY <1>3, <1>6, <2>1, <2>2
<1>11. PoolTypes(q)
  <2>1. q.s \in [0 .. Cap(q) - 1 -> SlotType]
    BY <1>4, <1>5, <1>6, <1>7
  <2>2. q.ev \in [DOMAIN q.ev -> BOOLEAN]
    <3>1. p.ev \in [DOMAIN p.ev -> BOOLEAN]
      BY <1>3 DEF PoolTypes
    <3> QED BY <1>6, <3>1
  <2> QED BY <1>3, <1>6, <1>7, <1>10, <2>1, <2>2 DEF PoolTypes
<1>12. Placed(q)
  <2>1. ASSUME NEW n \in InUse(q)
        PROVE  q.s[n].id % Cap(q) = n /\ q.s[n].id \in 1 .. q.id - 1
    <3>1. q.s[n].id = p.s[n].id /\ n \in InUse(p)
      BY <1>4, <1>8, <1>9
    <3> QED BY <1>3, <1>6, <1>7, <3>1 DEF Placed
  <2>2. ASSUME NEW n \in DOMAIN q.s \ InUse(q) PROVE q.s[n].wb = <<>>
    <3>1. CASE n = m
      BY <1>5, <1>7, <3>1
    <3>2. CASE n # m
      BY <1>3, <1>7, <1>8, <3>2 DEF Placed
    <3> QED BY <3>1, <3>2
  <2> QED BY <2>1, <2>2 DEF Placed
<1>13. EventsSet(q)
  <2>1. ASSUME NEW n \in InUse(q)
        PROVE  n \in InUse(p) /\ n \in DOMAIN p.s /\ q.s[n] = p.s[n] /\ p.s[n].id # id
               /\ p.s[n].id \in DOMAIN p.ev
    <3>1. n \in InUse(p) /\ n # m /\ n \in DOMAIN p.s
      BY <1>4, <1>8
    <3>2. p.s[n].id # id
      BY <1>2, <1>3, <3>1 DEF Placed
    <3> QED BY <1>3, <1>7, <3>1, <3>2 DEF EventsSet
  <2>2. DOMAIN q.ev = {q.s[n].id : n \in InUse(q)}
    <3>1. DOMAIN p.ev = {p.s[n].id : n \in InUse(p)}
      BY <1>3 DEF EventsSet
    <3>2. {q.s[n].id : n \in InUse(q)} \subseteq DOMAIN q.ev
      BY <1>7, <2>1
    <3>3. ASSUME NEW w \in DOMAIN q.ev PROVE w \in {q.s[n].id : n \in InUse(q)}
      <4>1. PICK n \in InUse(p) : w = p.s[n].id
        BY <1>7, <3>1
      <4>2. n # m
        BY <1>2, <1>7, <4>1
      <4> QED BY <1>8, <2>1, <4>1, <4>2
    <3> QED BY <3>2, <3>3
  <2>3. ASSUME NEW n \in InUse(q)
        PROVE  /\ q.ev[q.s[n].id] <=> q.s[n].wb # <<>>
               /\ q.s[n].status = "halfclose" => q.s[n].wb # <<>>
    <3>1. q.ev[q.s[n].id] = p.ev[p.s[n].id]
      BY <1>7, <2>1
    <3> QED BY <1>3, <2>1, <3>1 DEF EventsSet
  <2> QED BY <2>2, <2>3 DEF EventsSet
<1>14. PoolOK(q)
  BY <1>10, <1>11, <1>12, <1>13 DEF PoolOK
<1>15. \A w \in Nat : Slot(q, w).id = Slot(p, w).id
  BY <1>4, <1>7, <1>9 DEF Slot
<1>16. ASSUME NEW w \in DOMAIN p.ev, w # id PROVE Slot(q, w) = Slot(p, w)
  <2>1. w % Cap(p) # m /\ w % Cap(p) \in DOMAIN p.s
    BY <1>16, SlotsApart, SlotFound DEF m
  <2> QED BY <1>7, <2>1 DEF Slot
<1> QED BY <1>6, <1>7, <1>14, <1>15, <1>16 DEF OthersKept, q

\* lclose of a socket that is watched, or of one that is not.
LEMMA CloseOf ==
  ASSUME NEW p, PoolOK(p), NEW id \in DOMAIN p.ev
  PROVE  /\ OthersKept(p, lclose(p, id), id)
         /\ \/ /\ DOMAIN lclose(p, id).ev = DOMAIN p.ev \ {id}
               /\ Slot(p, id).wb = <<>>
            \/ /\ DOMAIN lclose(p, id).ev = DOMAIN p.ev
               /\ Slot(lclose(p, id), id) = [Slot(p, id) EXCEPT !.status = "halfclose"]
               /\ Slot(p, id).wb # <<>>
<1> DEFINE slot == [Slot(p, id) EXCEPT !.status = "halfclose"]
<1>1. /\ Slot(p, id).id = id /\ Slot(p, id).status # "invalid" /\ Slot(p, id) \in SlotType
      /\ Slot(p, id) = p.s[id % Cap(p)] /\ id % Cap(p) \in DOMAIN p.s
      /\ p.ev[id] <=> Slot(p, id).wb # <<>>
  BY SlotFound
<1>2. ~CloseFails(p, id)
  BY <1>1 DEF CloseFails
<1>3. CASE Slot(p, id).wb = <<>>
  <2>1. lclose(p, id) = force_close(p, id)
    BY <1>1, <1>2, <1>3 DEF lclose
  <2> QED BY <1>3, <2>1, ForceCloseOf
<1>4. CASE Slot(p, id).wb # <<>>
  <2>1. lclose(p, id) = [p EXCEPT !.s[id % Cap(p)].status = "halfclose"]
    BY <1>1, <1>2, <1>4 DEF lclose
  <2>2. /\ slot \in SlotType /\ slot.id = id /\ slot.status # "invalid" /\ slot.wb # <<>>
    BY <1>1, <1>4 DEF SlotType
  <2>3. lclose(p, id) = Changed(p, id, slot)
    <3>1. /\ p = [s |-> p.s, id |-> p.id, count |-> p.count, ev |-> p.ev]
          /\ p.ev \in [DOMAIN p.ev -> BOOLEAN]
      BY DEF PoolOK, PoolTypes
    <3>2. p.ev = [p.ev EXCEPT ![id] = (slot.wb # <<>>)]
      BY <1>1, <1>4, <3>1
    <3>3. [p.s EXCEPT ![id % Cap(p)].status = "halfclose"] = [p.s EXCEPT ![id % Cap(p)] = slot]
      BY <1>1
    <3> HIDE DEF slot
    <3>4. lclose(p, id) = [s |-> [p.s EXCEPT ![id % Cap(p)].status = "halfclose"],
                           id |-> p.id, count |-> p.count, ev |-> p.ev]
      BY <2>1, <3>1
    <3> QED BY <3>2, <3>3, <3>4 DEF Changed
  <2> HIDE DEF slot
  <2>4. /\ OthersKept(p, lclose(p, id), id)
        /\ DOMAIN lclose(p, id).ev = DOMAIN p.ev
        /\ Slot(lclose(p, id), id) = slot
    BY <2>2, <2>3, ChangedPool
  <2> QED BY <1>4, <2>4 DEF slot
<1> QED BY <1>3, <1>4

\* To close a socket that is closed already does nothing, whosever its slot is now.
LEMMA CloseUnwatched ==
  ASSUME NEW p, PoolOK(p), NEW id \in Nat, id \notin DOMAIN p.ev
  PROVE  lclose(p, id) = p
<1>1. CloseFails(p, id) \/ Slot(p, id).status = "invalid"
  BY SlotOpen DEF CloseFails
<1> QED BY <1>1 DEF lclose

\* A pool is itself, but for any slot.
LEMMA Reflexive ==
  ASSUME NEW p, PoolOK(p), NEW id
  PROVE  OthersKept(p, p, id)
BY DEF OthersKept

\* The write buffers once k bytes of the first are sent.
Remaining(wb, k) ==
  IF k = Len(Head(wb)) THEN Tail(wb)
  ELSE <<SubSeq(Head(wb), k + 1, Len(Head(wb)))>> \o Tail(wb)

\* The type of wb: no buffer is empty.
WriteBuffers == Seq(Seq(Nat) \ {<<>>})

\* What send has left of the buffers are buffers again, none of them empty.
LEMMA RemainingType ==
  ASSUME NEW wb \in WriteBuffers, wb # <<>>, NEW k \in 1 .. Len(Head(wb))
  PROVE  /\ Remaining(wb, k) \in WriteBuffers
         /\ Head(wb) \in Seq(Nat) \ {<<>>} /\ Tail(wb) \in WriteBuffers
         /\ SubSeq(Head(wb), k + 1, Len(Head(wb))) \in Seq(Nat)
<1>1. Head(wb) \in Seq(Nat) \ {<<>>} /\ Tail(wb) \in WriteBuffers
  BY HeadTailProperties DEF WriteBuffers
<1> DEFINE h == Head(wb)
           r == SubSeq(h, k + 1, Len(h))
<1>2. Len(h) \in Nat /\ k \in 1 .. Len(h) /\ h \in Seq(Nat)
  BY <1>1, LenProperties
<1> HIDE DEF h
<1>3. \A i \in k + 1 .. Len(h) : h[i] \in Nat
  <2>1. \A i \in 1 .. Len(h) : h[i] \in Nat
    BY <1>2, ElementOfSeq
  <2>2. \A i \in k + 1 .. Len(h) : i \in 1 .. Len(h)
    BY <1>2
  <2> QED BY <2>1, <2>2
<1>4. r \in Seq(Nat) /\ Len(r) = IF k + 1 <= Len(h) THEN Len(h) - (k + 1) + 1 ELSE 0
  <2>1. k + 1 \in Int /\ Len(h) \in Int
    BY <1>2
  <2> QED BY <1>3, <2>1, SubSeqProperties
<1>5. CASE k = Len(h)
  <2>1. Remaining(wb, k) = Tail(wb)
    BY <1>5 DEF Remaining, h
  <2> QED BY <1>1, <1>4, <2>1 DEF h
<1>6. CASE k # Len(h)
  <2>1. Remaining(wb, k) = <<r>> \o Tail(wb)
    BY <1>6 DEF Remaining, h
  <2>2. Len(r) # 0
    BY <1>2, <1>4, <1>6
  <2> HIDE DEF r
  <2>3. r # <<>>
    BY <2>2, EmptySeq
  <2>4. <<r>> \in WriteBuffers
    BY <1>4, <2>3 DEF WriteBuffers
  <2>5. <<r>> \o Tail(wb) \in WriteBuffers
    BY <1>1, <2>4, ConcatProperties DEF WriteBuffers
  <2> QED BY <1>1, <1>4, <2>1, <2>5 DEF h, r
<1> QED BY <1>5, <1>6

\* sp_write changes what epoll watches and nothing else.
LEMMA WriteOf ==
  ASSUME NEW p, IsPool(p), NEW id, NEW b
  PROVE  sp_write(p, id, b)
           = [s |-> p.s, id |-> p.id, count |-> p.count, ev |-> [p.ev EXCEPT ![id] = b]]
<1> DEFINE s == p.s
           i == p.id
           c == p.count
           e == p.ev
<1>1. p = [s |-> s, id |-> i, count |-> c, ev |-> e] /\ e = p.ev
  BY DEF IsPool
<1> HIDE DEF s, i, c, e
<1>2. sp_write(p, id, b) = [s |-> s, id |-> i, count |-> c, ev |-> [e EXCEPT ![id] = b]]
  BY <1>1 DEF sp_write
<1> QED BY <1>2 DEF s, i, c, e

\* What lsend buffers is appended to the buffers of one socket.
LEMMA BufferedOf ==
  ASSUME NEW p, PoolOK(p), NEW id \in DOMAIN p.ev, NEW bytes \in Seq(Nat)
  PROVE  /\ OthersKept(p, Buffered(p, id, bytes), id)
         /\ DOMAIN Buffered(p, id, bytes).ev = DOMAIN p.ev
         /\ Slot(Buffered(p, id, bytes), id)
              = [Slot(p, id) EXCEPT !.wb = IF bytes = <<>> THEN @ ELSE Append(@, bytes)]
<1> DEFINE m == id % Cap(p)
           wb == Slot(p, id).wb
           slot == [Slot(p, id) EXCEPT !.wb = Append(wb, bytes)]
<1>1. /\ Slot(p, id).id = id /\ Slot(p, id).status # "invalid" /\ Slot(p, id) \in SlotType
      /\ Slot(p, id) = p.s[m] /\ m \in DOMAIN p.s
      /\ p.ev[id] <=> Slot(p, id).wb # <<>>
  BY SlotFound
<1>2. /\ p = [s |-> p.s, id |-> p.id, count |-> p.count, ev |-> p.ev]
      /\ p.ev \in [DOMAIN p.ev -> BOOLEAN]
  BY DEF PoolOK, PoolTypes
<1>3. CASE bytes = <<>>
  <2>1. Buffered(p, id, bytes) = p
    BY <1>3 DEF Buffered
  <2>2. [Slot(p, id) EXCEPT !.wb = IF bytes = <<>> THEN @ ELSE Append(@, bytes)] = Slot(p, id)
    BY <1>1, <1>3, SlotFields
  <2> QED BY <2>1, <2>2, Reflexive
<1>4. CASE bytes # <<>>
  <2>1. /\ wb \in WriteBuffers /\ Append(wb, bytes) \in WriteBuffers /\ Append(wb, bytes) # <<>>
    <3>1. wb \in WriteBuffers /\ bytes \in Seq(Nat) \ {<<>>}
      BY <1>1, <1>4, SlotFields DEF WriteBuffers
    <3> HIDE DEF wb
    <3> QED BY <3>1, AppendProperties DEF WriteBuffers
  <2>2. /\ slot \in SlotType /\ slot.id = id /\ slot.status # "invalid" /\ slot.wb # <<>>
        /\ slot.wb = Append(wb, bytes)
    <3> HIDE DEF wb
    <3> QED BY <1>1, <2>1 DEF SlotType, WriteBuffers
  <2>3. [p.s EXCEPT ![m].wb = Append(@, bytes)] = [p.s EXCEPT ![m] = slot]
    BY <1>1
  <2>4. Buffered(p, id, bytes) = Changed(p, id, slot)
    <3> DEFINE q == [p EXCEPT !.s[m].wb = Append(@, bytes)]
    <3>1. q = [s |-> [p.s EXCEPT ![m].wb = Append(@, bytes)], id |-> p.id, count |-> p.count,
               ev |-> p.ev]
      BY <1>2
    <3>2. Buffered(p, id, bytes) = IF wb # <<>> THEN q ELSE sp_write(q, id, TRUE)
      BY <1>4 DEF Buffered
    <3> HIDE DEF q, slot, m
    <3>3. /\ Changed(p, id, slot) = [s |-> [p.s EXCEPT ![m] = slot], id |-> p.id, count |-> p.count,
                                     ev |-> [p.ev EXCEPT ![id] = TRUE]]
      BY <2>2 DEF Changed, m
    <3>4. CASE wb # <<>>
      <4>1. p.ev = [p.ev EXCEPT ![id] = TRUE]
        BY <1>1, <1>2, <3>4
      <4> QED BY <2>3, <3>1, <3>2, <3>3, <3>4, <4>1
    <3>5. CASE wb = <<>>
      <4>1. sp_write(q, id, TRUE) = [s |-> [p.s EXCEPT ![m].wb = Append(@, bytes)], id |-> p.id,
               count |-> p.count, ev |-> [p.ev EXCEPT ![id] = TRUE]]
        <5>1. /\ q.s = [p.s EXCEPT ![m].wb = Append(@, bytes)] /\ q.id = p.id
              /\ q.count = p.count /\ q.ev = p.ev
          BY <3>1
        <5>2. IsPool(q)
          BY <3>1, <5>1 DEF IsPool
        <5>3. sp_write(q, id, TRUE) = [s |-> q.s, id |-> q.id, count |-> q.count,
                                       ev |-> [q.ev EXCEPT ![id] = TRUE]]
          BY <5>2, WriteOf
        <5>4. [q.ev EXCEPT ![id] = TRUE] = [p.ev EXCEPT ![id] = TRUE]
          BY <5>1
        <5> QED BY <5>1, <5>3, <5>4
      <4> QED BY <2>3, <3>2, <3>3, <3>5, <4>1
    <3> QED BY <3>4, <3>5
  <2>5. slot = [Slot(p, id) EXCEPT !.wb = IF bytes = <<>> THEN @ ELSE Append(@, bytes)]
    BY <1>1, <1>4
  <2> HIDE DEF slot
  <2>6. /\ OthersKept(p, Changed(p, id, slot), id)
        /\ DOMAIN Changed(p, id, slot).ev = DOMAIN p.ev
        /\ Slot(Changed(p, id, slot), id) = slot
    BY <2>2, ChangedPool
  <2> QED BY <2>4, <2>5, <2>6
<1> QED BY <1>3, <1>4

\* sendout takes bytes from the buffers of one socket, and closes it when it is half-closed
\* and nothing is left.
LEMMA DrainedOf ==
  ASSUME NEW p, PoolOK(p), NEW id \in DOMAIN p.ev, Slot(p, id).wb # <<>>,
         NEW k \in 1 .. Len(Head(Slot(p, id).wb))
  PROVE  LET q == CloseDrained(Drained(p, id, k), id)
             rest == Remaining(Slot(p, id).wb, k)
         IN /\ OthersKept(p, q, id)
            /\ \/ /\ DOMAIN q.ev = DOMAIN p.ev \ {id}
                  /\ rest = <<>> /\ Slot(p, id).status = "halfclose"
               \/ /\ DOMAIN q.ev = DOMAIN p.ev
                  /\ Slot(q, id) = [Slot(p, id) EXCEPT !.wb = rest]
<1> DEFINE m == id % Cap(p)
           wb == Slot(p, id).wb
           rest == Remaining(wb, k)
           slot == [Slot(p, id) EXCEPT !.wb = rest]
           d == Drained(p, id, k)
           q == CloseDrained(d, id)
<1>1. /\ Slot(p, id).id = id /\ Slot(p, id).status # "invalid" /\ Slot(p, id) \in SlotType
      /\ Slot(p, id) = p.s[m] /\ m \in DOMAIN p.s
      /\ p.ev[id] <=> Slot(p, id).wb # <<>>
  BY SlotFound
<1>2. /\ p = [s |-> p.s, id |-> p.id, count |-> p.count, ev |-> p.ev]
      /\ p.ev \in [DOMAIN p.ev -> BOOLEAN]
  BY DEF PoolOK, PoolTypes
<1>3. rest \in WriteBuffers
  <2>1. wb \in WriteBuffers
    BY <1>1, SlotFields DEF WriteBuffers
  <2> QED BY <2>1, RemainingType
<1>4. /\ slot \in SlotType /\ slot.id = id /\ slot.status = Slot(p, id).status /\ slot.wb = rest
  <2> HIDE DEF rest
  <2> QED BY <1>1, <1>3 DEF SlotType, WriteBuffers
<1>5. d = Changed(p, id, slot)
  <2> DEFINE e == [p EXCEPT !.s[m].wb = rest]
  <2>1. d = IF rest = <<>> THEN sp_write(e, id, FALSE) ELSE e
    BY DEF Drained, Remaining
  <2> HIDE DEF d, rest
  <2>2. [p.s EXCEPT ![m].wb = rest] = [p.s EXCEPT ![m] = slot]
    BY <1>1
  <2>3. e = [s |-> [p.s EXCEPT ![m].wb = rest], id |-> p.id, count |-> p.count, ev |-> p.ev]
    BY <1>2
  <2> HIDE DEF e, slot, m
  <2>4. Changed(p, id, slot) = [s |-> [p.s EXCEPT ![m] = slot], id |-> p.id, count |-> p.count,
                                ev |-> [p.ev EXCEPT ![id] = (rest # <<>>)]]
    BY <1>4 DEF Changed, m
  <2>5. CASE rest = <<>>
    <3>1. sp_write(e, id, FALSE) = [s |-> [p.s EXCEPT ![m].wb = rest], id |-> p.id,
                                    count |-> p.count, ev |-> [p.ev EXCEPT ![id] = FALSE]]
      <4>1. /\ e.s = [p.s EXCEPT ![m].wb = rest] /\ e.id = p.id
            /\ e.count = p.count /\ e.ev = p.ev
        BY <2>3
      <4>2. IsPool(e)
        BY <2>3, <4>1 DEF IsPool
      <4>3. sp_write(e, id, FALSE) = [s |-> e.s, id |-> e.id, count |-> e.count,
                                      ev |-> [e.ev EXCEPT ![id] = FALSE]]
        BY <4>2, WriteOf
      <4>4. [e.ev EXCEPT ![id] = FALSE] = [p.ev EXCEPT ![id] = FALSE]
        BY <4>1
      <4> QED BY <4>1, <4>3, <4>4
    <3>2. (rest # <<>>) = FALSE
      BY <2>5
    <3> QED BY <2>1, <2>2, <2>4, <2>5, <3>1, <3>2
  <2>6. CASE rest # <<>>
    <3>1. (rest # <<>>) = TRUE
      BY <2>6
    <3>2. p.ev = [p.ev EXCEPT ![id] = TRUE]
      BY <1>1, <1>2
    <3> QED BY <2>1, <2>2, <2>3, <2>4, <2>6, <3>1, <3>2
  <2> QED BY <2>5, <2>6
<1>6. /\ d.s = [p.s EXCEPT ![m] = slot] /\ d.id = p.id /\ d.count = p.count
      /\ d.ev = [p.ev EXCEPT ![id] = (slot.wb # <<>>)]
      /\ d = [s |-> d.s, id |-> d.id, count |-> d.count, ev |-> d.ev]
  <2> HIDE DEF d, slot
  <2> QED BY <1>5 DEF Changed
<1> HIDE DEF d
<1>7. Cap(d) = Cap(p) /\ Slot(d, id) = slot
  <2> HIDE DEF slot
  <2>1. DOMAIN d.s = DOMAIN p.s
    BY <1>6
  <2>2. Cap(d) = Cap(p)
    BY <2>1 DEF Cap
  <2> QED BY <1>1, <1>6, <2>2 DEF Slot
<1> HIDE DEF slot, rest
<1>8. CASE slot.status = "halfclose" /\ rest = <<>>
  <2>1. q = force_close(d, id)
    BY <1>4, <1>7, <1>8 DEF CloseDrained
  <2>2. force_close(d, id) = force_close(p, id)
    <3>1. [[d.s EXCEPT ![m].status = "invalid"] EXCEPT ![m].wb = <<>>]
          = [[p.s EXCEPT ![m].status = "invalid"] EXCEPT ![m].wb = <<>>]
      <4>1. slot = [p.s[m] EXCEPT !.wb = rest]
        BY <1>1 DEF slot
      <4> HIDE DEF m
      <4>2. [[slot EXCEPT !.status = "invalid"] EXCEPT !.wb = <<>>]
            = [[p.s[m] EXCEPT !.status = "invalid"] EXCEPT !.wb = <<>>]
        BY <1>1, <4>1 DEF SlotType
      <4>3. [[d.s EXCEPT ![m].status = "invalid"] EXCEPT ![m].wb = <<>>]
            = [p.s EXCEPT ![m] = [[slot EXCEPT !.status = "invalid"] EXCEPT !.wb = <<>>]]
        BY <1>1, <1>6
      <4>4. [[p.s EXCEPT ![m].status = "invalid"] EXCEPT ![m].wb = <<>>]
            = [p.s EXCEPT ![m] = [[p.s[m] EXCEPT !.status = "invalid"] EXCEPT !.wb = <<>>]]
        BY <1>1
      <4> QED BY <4>2, <4>3, <4>4
    <3>2. Closed(d.s, m) = Closed(p.s, m) /\ Cap(d) = Cap(p)
      BY <1>7, <3>1 DEF Closed
    <3>3. DOMAIN d.ev = DOMAIN p.ev /\ \A w \in DOMAIN p.ev \ {id} : d.ev[w] = p.ev[w]
      BY <1>2, <1>6
    <3>4. [w \in DOMAIN d.ev \ {id} |-> d.ev[w]] = [w \in DOMAIN p.ev \ {id} |-> p.ev[w]]
      BY <3>3
    <3>5. force_close(p, id) = [s |-> Closed(p.s, m), id |-> p.id, count |-> p.count - 1,
                                ev |-> [w \in DOMAIN p.ev \ {id} |-> p.ev[w]]]
      <4>1. IsPool(p)
        BY <1>2 DEF IsPool
      <4> QED BY <4>1, ForceCloseIs
    <3>6. force_close(d, id) = [s |-> Closed(d.s, id % Cap(d)), id |-> d.id, count |-> d.count - 1,
                                ev |-> [w \in DOMAIN d.ev \ {id} |-> d.ev[w]]]
      <4>1. IsPool(d)
        BY <1>6 DEF IsPool
      <4> QED BY <4>1, ForceCloseIs
    <3> QED BY <1>6, <3>2, <3>4, <3>5, <3>6
  <2>3. OthersKept(p, q, id) /\ DOMAIN q.ev = DOMAIN p.ev \ {id}
    BY <2>1, <2>2, ForceCloseOf
  <2> QED BY <1>4, <1>8, <2>3 DEF rest, d
<1>9. CASE ~(slot.status = "halfclose" /\ rest = <<>>)
  <2>1. q = d
    BY <1>4, <1>7, <1>9 DEF CloseDrained
  <2>2. /\ OthersKept(p, q, id) /\ DOMAIN q.ev = DOMAIN p.ev /\ Slot(q, id) = slot
    BY <1>1, <1>4, <1>5, <1>9, <2>1, ChangedPool
  <2> QED BY <2>2 DEF slot, rest, d
<1> QED BY <1>8, <1>9

\* A slot of a new pool.
LEMMA EmptySlotType == EmptySlot \in SlotType /\ EmptySlot.status = "invalid" /\ EmptySlot.wb = <<>>
<1>1. <<>> \in Seq(Seq(Nat) \ {<<>>})
  BY EmptySeq
<1> QED BY <1>1 DEF EmptySlot, SlotType

\* A pool that is full grows: every socket goes to a slot of its own.
LEMMA ExpandOf ==
  ASSUME NEW p, PoolOK(p), p.count >= Cap(p)
  PROVE  /\ PoolOK(expand_pool(p))
         /\ expand_pool(p).id = p.id /\ DOMAIN expand_pool(p).ev = DOMAIN p.ev
         /\ expand_pool(p).count < Cap(expand_pool(p))
         /\ \A w \in DOMAIN p.ev : Slot(expand_pool(p), w) = Slot(p, w)
<1> DEFINE c == Cap(p)
           cc == 2 * Cap(p)
           q == expand_pool(p)
           from(n) == {m \in DOMAIN p.s : p.s[m].id % cc = n}
           g == [m \in DOMAIN p.s |-> p.s[m].id % cc]
           pick(n) == CHOOSE m \in from(n) : TRUE
           F == [n \in 0 .. cc - 1 |-> IF from(n) = {} THEN EmptySlot ELSE p.s[pick(n)]]
<1>1. /\ PoolTypes(p) /\ Placed(p) /\ EventsSet(p) /\ p.count = Cardinality(InUse(p))
  BY DEF PoolOK
<1>2. /\ DOMAIN p.s = 0 .. c - 1
      /\ \A n \in DOMAIN p.s : p.s[n] \in SlotType /\ p.s[n].id \in Nat
      /\ IsFiniteSet(DOMAIN p.s) /\ IsFiniteSet(InUse(p))
      /\ InUse(p) \subseteq DOMAIN p.s
  BY <1>1, PoolDomain
<1>3. /\ c \in Nat \ {0} /\ cc \in Nat \ {0} /\ cc = 2 * c
      /\ p = [s |-> p.s, id |-> p.id, count |-> p.count, ev |-> p.ev]
      /\ p.id \in Nat \ {0} /\ p.count \in Nat
  BY <1>1 DEF PoolTypes
<1>4. InUse(p) = DOMAIN p.s /\ p.count = c
  <2>1. Cardinality(DOMAIN p.s) = c
    BY DEF Cap
  <2>2. Cardinality(InUse(p)) <= c /\ (Cardinality(DOMAIN p.s) = Cardinality(InUse(p)) => DOMAIN p.s = InUse(p))
    BY <1>2, <2>1, FS_Subset
  <2>3. Cardinality(InUse(p)) = c
    BY <1>1, <1>3, <2>2
  <2> QED BY <1>1, <2>1, <2>2, <2>3
<1>5. q = [s |-> F, id |-> p.id, count |-> p.count, ev |-> p.ev]
  <2>1. q = [p EXCEPT !.s = F]
    BY DEF expand_pool
  <2> HIDE DEF F, q
  <2> QED BY <1>3, <2>1
<1>6. ASSUME NEW m \in DOMAIN p.s
      PROVE  /\ g[m] \in 0 .. cc - 1
             /\ m = IF g[m] < c THEN g[m] ELSE g[m] - c
  <2>1. p.s[m].id \in Nat /\ p.s[m].id % c = m
    BY <1>1, <1>2, <1>4 DEF Placed
  <2>2. g[m] = p.s[m].id % cc
    OBVIOUS
  <2>3. p.s[m].id % c = IF p.s[m].id % (2 * c) < c THEN p.s[m].id % (2 * c) ELSE (p.s[m].id % (2 * c)) - c
    BY <1>3, <2>1, RemainderOfDouble
  <2>4. p.s[m].id % cc \in 0 .. cc - 1
    BY <1>3, <2>1, RemainderRange
  <2> QED BY <1>3, <2>1, <2>2, <2>3, <2>4
<1>7. ASSUME NEW m \in DOMAIN p.s, NEW k \in DOMAIN p.s, g[m] = g[k] PROVE m = k
  BY <1>6, <1>7
<1>8. ASSUME NEW m \in DOMAIN p.s PROVE from(g[m]) = {m}
  BY <1>7
<1>9. \A n : \A m \in from(n) : m \in DOMAIN p.s /\ n = g[m]
  OBVIOUS
<1>10. ASSUME NEW m \in DOMAIN p.s PROVE q.s[g[m]] = p.s[m]
  <2>1. g[m] \in 0 .. cc - 1 /\ from(g[m]) = {m}
    BY <1>6, <1>8
  <2>2. pick(g[m]) = m
    BY <2>1
  <2>3. q.s = F
    BY <1>5
  <2> HIDE DEF pick, g, q, from
  <2> QED BY <2>1, <2>2, <2>3
<1>11. ASSUME NEW n \in 0 .. cc - 1, \A m \in DOMAIN p.s : g[m] # n PROVE q.s[n] = EmptySlot
  <2>1. from(n) = {}
    BY <1>11
  <2>2. q.s = F
    BY <1>5
  <2> HIDE DEF pick, g, q, from
  <2> QED BY <2>1, <2>2
<1>12. DOMAIN q.s = 0 .. cc - 1 /\ q.id = p.id /\ q.count = p.count /\ q.ev = p.ev
       /\ q = [s |-> q.s, id |-> q.id, count |-> q.count, ev |-> q.ev]
  <2> HIDE DEF from, pick
  <2> QED BY <1>5
<1>13. DOMAIN g = DOMAIN p.s
  OBVIOUS
<1>14. Cap(q) = cc
  <2>1. 0 \in Int /\ cc - 1 \in Int /\ ~(0 > cc - 1)
    BY <1>3
  <2>2. Cardinality(0 .. cc - 1) = cc - 1 - 0 + 1
    BY <2>1, FS_Interval
  <2>3. cc - 1 - 0 + 1 = cc
    BY <1>3
  <2> HIDE DEF q, cc
  <2> QED BY <1>12, <2>2, <2>3 DEF Cap
<1> HIDE DEF q, g, from, cc, pick, F
<1>15. /\ \A n \in InUse(q) : \E m \in DOMAIN p.s : n = g[m] /\ q.s[n] = p.s[m]
       /\ \A m \in DOMAIN p.s : g[m] \in InUse(q)
  <2>1. ASSUME NEW n \in InUse(q) PROVE \E m \in DOMAIN p.s : n = g[m] /\ q.s[n] = p.s[m]
    <3>1. n \in 0 .. cc - 1 /\ q.s[n].status # "invalid"
      BY <1>12 DEF InUse
    <3>2. q.s[n] # EmptySlot
      BY <3>1, EmptySlotType
    <3> QED BY <1>10, <1>11, <3>1, <3>2
  <2>2. ASSUME NEW m \in DOMAIN p.s PROVE g[m] \in InUse(q)
    <3>1. p.s[m].status # "invalid"
      BY <1>4 DEF InUse
    <3> QED BY <1>6, <1>10, <1>12, <3>1 DEF InUse
  <2> QED BY <2>1, <2>2
<1>16. Cardinality(InUse(q)) = Cardinality(DOMAIN p.s)
  <2>1. g \in Surjection(DOMAIN p.s, InUse(q))
    <3>1. g \in [DOMAIN p.s -> InUse(q)]
      BY <1>13, <1>15 DEF g
    <3> QED BY <1>15, <3>1 DEF Surjection
  <2>2. g \in Injection(DOMAIN p.s, InUse(q))
    BY <1>7, <2>1 DEF Injection, Surjection, IsInjective
  <2> QED BY <1>2, <2>1, <2>2, FS_Surjection
<1>17. PoolTypes(q)
  <2>1. \A n \in 0 .. cc - 1 : q.s[n] \in SlotType
    <3>1. ASSUME NEW n \in 0 .. cc - 1 PROVE q.s[n] \in SlotType
      <4>1. CASE \E m \in DOMAIN p.s : g[m] = n
        BY <1>2, <1>10, <4>1
      <4>2. CASE ~ \E m \in DOMAIN p.s : g[m] = n
        BY <1>11, <4>2, EmptySlotType
      <4> QED BY <4>1, <4>2
    <3> QED BY <3>1
  <2>2. q.s = [n \in DOMAIN q.s |-> q.s[n]]
    <3>1. q.s = F
      BY <1>5
    <3> QED BY <3>1 DEF F
  <2>3. q.s \in [0 .. Cap(q) - 1 -> SlotType]
    BY <1>12, <1>14, <2>1, <2>2
  <2> QED BY <1>1, <1>3, <1>12, <1>14, <2>3 DEF PoolTypes
<1>18. Placed(q)
  <2>1. ASSUME NEW n \in InUse(q)
        PROVE  q.s[n].id % Cap(q) = n /\ q.s[n].id \in 1 .. q.id - 1
    <3>1. PICK m \in DOMAIN p.s : n = g[m] /\ q.s[n] = p.s[m]
      BY <1>15
    <3>2. p.s[m].id % cc = n
      BY <3>1 DEF g
    <3>3. p.s[m].id \in 1 .. p.id - 1
      BY <1>1, <1>4 DEF Placed
    <3> QED BY <1>12, <1>14, <3>1, <3>2, <3>3
  <2>2. ASSUME NEW n \in DOMAIN q.s \ InUse(q) PROVE q.s[n].wb = <<>>
    <3>1. \A m \in DOMAIN p.s : g[m] # n
      BY <1>15
    <3>2. q.s[n] = EmptySlot
      BY <1>11, <1>12, <3>1
    <3> QED BY <3>2, EmptySlotType
  <2> QED BY <2>1, <2>2 DEF Placed
<1>19. EventsSet(q)
  <2>1. DOMAIN q.ev = {q.s[n].id : n \in InUse(q)}
    <3>1. DOMAIN p.ev = {p.s[n].id : n \in DOMAIN p.s}
      BY <1>1, <1>4 DEF EventsSet
    <3>2. \A n \in InUse(q) : q.s[n].id \in {p.s[k].id : k \in DOMAIN p.s}
      BY <1>15
    <3>3. \A m \in DOMAIN p.s : p.s[m].id \in {q.s[k].id : k \in InUse(q)}
      BY <1>10, <1>15
    <3> QED BY <1>12, <3>1, <3>2, <3>3
  <2>2. ASSUME NEW n \in InUse(q)
        PROVE  /\ q.ev[q.s[n].id] <=> q.s[n].wb # <<>>
               /\ q.s[n].status = "halfclose" => q.s[n].wb # <<>>
    <3>1. PICK m \in DOMAIN p.s : n = g[m] /\ q.s[n] = p.s[m]
      BY <1>15
    <3> QED BY <1>1, <1>4, <1>12, <3>1 DEF EventsSet
  <2> QED BY <2>1, <2>2 DEF EventsSet
<1>20. PoolOK(q) /\ q.count < Cap(q)
  <2>1. q.count = Cardinality(InUse(q))
    BY <1>1, <1>4, <1>12, <1>16
  <2>2. q.count < Cap(q)
    BY <1>3, <1>4, <1>12, <1>14
  <2> QED BY <1>17, <1>18, <1>19, <2>1, <2>2 DEF PoolOK
<1>21. ASSUME NEW w \in DOMAIN p.ev PROVE Slot(q, w) = Slot(p, w)
  <2>1. w % c \in DOMAIN p.s /\ p.s[w % c].id = w
    BY SlotFound
  <2> DEFINE m == w % c
  <2> HIDE DEF m
  <2>2. m \in DOMAIN p.s /\ p.s[m].id = w
    BY <2>1 DEF m
  <2>3. g[m] = w % cc
    BY <2>2 DEF g
  <2>4. q.s[w % cc] = p.s[m]
    BY <1>10, <2>2, <2>3
  <2> QED BY <1>14, <2>4 DEF Slot, m
<1> QED BY <1>12, <1>20, <1>21 DEF q

\* expand_pool makes room, and every id finds the slot that it found before.
LEMMA ExpandedOf ==
  ASSUME NEW p, PoolOK(p)
  PROVE  /\ PoolOK(Expanded(p)) /\ Expanded(p).count < Cap(Expanded(p))
         /\ Expanded(p).id = p.id /\ DOMAIN Expanded(p).ev = DOMAIN p.ev
         /\ \A w \in DOMAIN p.ev : Slot(Expanded(p), w) = Slot(p, w)
<1>1. p.count \in Nat /\ Cap(p) \in Nat
  BY DEF PoolOK, PoolTypes
<1>2. CASE p.count >= Cap(p)
  BY <1>2, ExpandOf DEF Expanded
<1>3. CASE ~(p.count >= Cap(p))
  <2>1. p.count < Cap(p)
    BY <1>1, <1>3
  <2> QED BY <1>3, <2>1 DEF Expanded
<1> QED BY <1>2, <1>3

\* The next id is one that was never given out, and its slot is free.
LEMMA NextIdOf ==
  ASSUME NEW p, PoolOK(p)
  PROVE  /\ NextId(p) \in Nat /\ NextId(p) >= p.id
         /\ NextId(p) % Cap(Expanded(p)) \in DOMAIN Expanded(p).s \ InUse(Expanded(p))
<1> DEFINE q == Expanded(p)
           S == {i \in 0 .. Cap(q) - 1 : q.s[(q.id + i) % Cap(q)].status = "invalid"}
<1>1. PoolOK(q) /\ q.count < Cap(q) /\ q.id = p.id
  BY ExpandedOf
<1>2. /\ DOMAIN q.s = 0 .. Cap(q) - 1 /\ IsFiniteSet(InUse(q)) /\ InUse(q) \subseteq DOMAIN q.s
      /\ Cap(q) \in Nat \ {0} /\ q.id \in Nat /\ q.count = Cardinality(InUse(q))
      /\ \A w \in Nat : w % Cap(q) \in DOMAIN q.s
  BY <1>1, PoolDomain DEF PoolOK, PoolTypes
<1>3. NextId(p) = q.id + Min(S)
  BY DEF NextId
<1> HIDE DEF q
<1>4. PICK n \in DOMAIN q.s : n \notin InUse(q)
  <2>1. SUFFICES ASSUME DOMAIN q.s \subseteq InUse(q) PROVE FALSE
    OBVIOUS
  <2>2. DOMAIN q.s = InUse(q)
    BY <1>2, <2>1
  <2>3. Cap(q) = q.count
    BY <1>2, <2>2 DEF Cap
  <2> QED BY <1>1, <1>2, <2>3
<1>5. PICK i \in 0 .. Cap(q) - 1 : (q.id + i) % Cap(q) = n
  BY <1>2, <1>4, RemainderMet
<1>6. i \in S
  BY <1>4, <1>5 DEF InUse
<1>7. Min(S) \in S
  <2>1. S \in SUBSET Nat
    BY <1>2
  <2> HIDE DEF S
  <2>2. \E k \in S : \A m \in S : k <= m
    BY <1>6, <2>1, Least
  <2> QED BY <2>2 DEF Min
<1> DEFINE j == Min(S)
<1>8. /\ j \in 0 .. Cap(q) - 1 /\ q.s[(q.id + j) % Cap(q)].status = "invalid"
  BY <1>7
<1>11. NextId(p) = q.id + j
  BY <1>3
<1> HIDE DEF j, S
<1>12. j \in Nat /\ q.id \in Nat
  <2>1. j \in 0 .. Cap(q) - 1 /\ Cap(q) \in Int
    BY <1>2, <1>8
  <2> QED BY <1>2, <2>1
<1>9. q.id + j \in Nat /\ q.id + j >= q.id /\ NextId(p) = q.id + j
  BY <1>11, <1>12
<1>10. (q.id + j) % Cap(q) \in DOMAIN q.s \ InUse(q)
  BY <1>2, <1>8, <1>9 DEF InUse
<1> QED BY <1>1, <1>9, <1>10 DEF q

\* A new socket: its id was never given out, and the others stay where they are found.
LEMMA NewSocketOf ==
  ASSUME NEW p, PoolOK(p), NEW listen \in BOOLEAN
  PROVE  LET q == new_socket(p, listen)
             id == NextId(p)
         IN /\ PoolOK(q) /\ q.id = id + 1 /\ id \in Nat /\ id >= p.id /\ id \notin DOMAIN p.ev
            /\ DOMAIN q.ev = DOMAIN p.ev \union {id}
            /\ Slot(q, id) = [id |-> id, status |-> "suspend", listen |-> listen, wb |-> <<>>]
            /\ \A w \in DOMAIN p.ev : Slot(q, w) = Slot(p, w)
<1> DEFINE e == Expanded(p)
           id == NextId(p)
           m == id % Cap(e)
           slot == [id |-> id, status |-> "suspend", listen |-> listen, wb |-> <<>>]
           q == new_socket(p, listen)
<1>1. /\ PoolOK(e) /\ e.id = p.id /\ DOMAIN e.ev = DOMAIN p.ev
      /\ \A w \in DOMAIN p.ev : Slot(e, w) = Slot(p, w)
  BY ExpandedOf
<1>2. /\ id \in Nat /\ id >= p.id /\ m \in DOMAIN e.s /\ m \notin InUse(e)
  BY NextIdOf
<1>3. q = [sp_add(e, id) EXCEPT !.s[m] = slot, !.id = id + 1, !.count = @ + 1]
  BY DEF new_socket
<1> HIDE DEF e, q
<1>4. /\ PoolTypes(e) /\ Placed(e) /\ EventsSet(e) /\ e.count = Cardinality(InUse(e))
      /\ e = [s |-> e.s, id |-> e.id, count |-> e.count, ev |-> e.ev]
      /\ Cap(e) \in Nat \ {0} /\ e.id \in Nat \ {0} /\ e.count \in Nat
      /\ e.ev \in [DOMAIN e.ev -> BOOLEAN]
  BY <1>1 DEF PoolOK, PoolTypes
<1>5. /\ DOMAIN e.s = 0 .. Cap(e) - 1 /\ InUse(e) \subseteq DOMAIN e.s
      /\ \A n \in DOMAIN e.s : e.s[n] \in SlotType
      /\ \A w \in Nat : w % Cap(e) \in DOMAIN e.s
      /\ IsFiniteSet(InUse(e))
  BY <1>4, PoolDomain
<1>6. id \notin DOMAIN e.ev
  <2>1. ASSUME id \in DOMAIN e.ev PROVE FALSE
    <3>1. id \in 1 .. e.id - 1
      BY <1>1, <2>1, SlotFound
    <3> QED BY <1>1, <1>2, <1>4, <3>1
  <2> QED BY <2>1
<1>7. slot \in SlotType /\ slot.id = id /\ slot.status # "invalid" /\ slot.wb = <<>> /\ slot.listen = listen
      /\ slot.status # "halfclose"
  <2>1. <<>> \in Seq(Seq(Nat) \ {<<>>})
    BY EmptySeq
  <2> QED BY <1>2, <2>1 DEF SlotType
<1>8. \A n \in InUse(e) : e.s[n].id # id
  BY <1>4, <1>6 DEF EventsSet
<1> HIDE DEF slot, m, id
<1>9. /\ q.s = [e.s EXCEPT ![m] = slot] /\ q.id = id + 1 /\ q.count = e.count + 1
      /\ q.ev = With(e.ev, id, FALSE)
      /\ q = [s |-> q.s, id |-> q.id, count |-> q.count, ev |-> q.ev]
  <2> DEFINE a == sp_add(e, id)
             f == With(e.ev, id, FALSE)
  <2>1. a = [s |-> e.s, id |-> e.id, count |-> e.count, ev |-> f]
    <3>1. a = [e EXCEPT !.ev = f]
      BY DEF sp_add
    <3> HIDE DEF f, a
    <3> QED BY <1>4, <3>1
  <2>2. q = [a EXCEPT !.s[m] = slot, !.id = id + 1, !.count = @ + 1]
    BY <1>3 DEF m, slot, id
  <2> HIDE DEF a, f
  <2> QED BY <2>1, <2>2 DEF f
<1>10. /\ DOMAIN q.s = DOMAIN e.s /\ Cap(q) = Cap(e)
       /\ q.s[m] = slot /\ \A n \in DOMAIN e.s \ {m} : q.s[n] = e.s[n]
       /\ DOMAIN q.ev = DOMAIN e.ev \union {id}
       /\ q.ev[id] = FALSE /\ \A w \in DOMAIN e.ev : q.ev[w] = e.ev[w]
  <2>1. DOMAIN q.ev = DOMAIN e.ev \union {id} /\ q.ev[id] = FALSE /\ \A w \in DOMAIN e.ev : q.ev[w] = e.ev[w]
    <3>1. q.ev = [w \in DOMAIN e.ev \union {id} |-> IF w = id THEN FALSE ELSE e.ev[w]]
      BY <1>9 DEF With
    <3> QED BY <1>6, <3>1
  <2> QED BY <1>2, <1>9, <2>1 DEF Cap
<1>11. InUse(q) = InUse(e) \union {m}
  BY <1>2, <1>5, <1>7, <1>10 DEF InUse
<1>12. q.count = Cardinality(InUse(q)) /\ q.count \in Nat
  <2>1. Cardinality(InUse(e) \union {m}) = Cardinality(InUse(e)) + 1
    BY <1>2, <1>5, FS_AddElement DEF m
  <2> QED BY <1>4, <1>9, <1>11, <2>1
<1>13. \A n \in InUse(e) : n # m /\ n \in DOMAIN e.s /\ q.s[n] = e.s[n]
  BY <1>2, <1>5, <1>10
<1>14. PoolTypes(q)
  <2>1. q.s \in [0 .. Cap(q) - 1 -> SlotType]
    BY <1>5, <1>7, <1>9, <1>10, <1>4 DEF PoolTypes
  <2>2. q.ev \in [DOMAIN q.ev -> BOOLEAN]
    <3>1. q.ev = [w \in DOMAIN e.ev \union {id} |-> IF w = id THEN FALSE ELSE e.ev[w]]
      BY <1>9 DEF With
    <3>2. \A w \in DOMAIN q.ev : q.ev[w] \in BOOLEAN
      BY <1>4, <1>10
    <3>3. q.ev = [w \in DOMAIN q.ev |-> q.ev[w]]
      BY <3>1
    <3> QED BY <3>2, <3>3
  <2>3. q.id \in Nat \ {0}
    BY <1>2, <1>9 DEF id
  <2> QED BY <1>4, <1>9, <1>10, <1>12, <2>1, <2>2, <2>3 DEF PoolTypes
<1>15. Placed(q)
  <2>1. ASSUME NEW n \in InUse(q)
        PROVE  q.s[n].id % Cap(q) = n /\ q.s[n].id \in 1 .. q.id - 1
    <3>1. CASE n = m
      <4>1. id \in Nat /\ id >= 1
        BY <1>1, <1>2, <1>4 DEF id
      <4>2. id % Cap(q) = m
        BY <1>10 DEF m
      <4> QED BY <1>7, <1>9, <1>10, <3>1, <4>1, <4>2
    <3>2. CASE n # m
      <4>1. n \in InUse(e) /\ q.s[n] = e.s[n]
        BY <1>11, <1>13, <3>2
      <4>2. e.s[n].id % Cap(e) = n /\ e.s[n].id \in 1 .. e.id - 1
        BY <1>4, <4>1 DEF Placed
      <4>3. id \in Nat /\ id >= e.id
        BY <1>1, <1>2 DEF id
      <4> QED BY <1>4, <1>9, <1>10, <4>1, <4>2, <4>3
    <3> QED BY <3>1, <3>2
  <2>2. ASSUME NEW n \in DOMAIN q.s \ InUse(q) PROVE q.s[n].wb = <<>>
    <3>1. n # m /\ n \in DOMAIN e.s \ InUse(e)
      BY <1>10, <1>11
    <3> QED BY <1>4, <1>10, <3>1 DEF Placed
  <2> QED BY <2>1, <2>2 DEF Placed
<1>16. EventsSet(q)
  <2>1. DOMAIN q.ev = {q.s[n].id : n \in InUse(q)}
    <3>1. DOMAIN e.ev = {e.s[n].id : n \in InUse(e)}
      BY <1>4 DEF EventsSet
    <3>2. {q.s[n].id : n \in InUse(e)} = {e.s[n].id : n \in InUse(e)}
      BY <1>13
    <3>3. {q.s[n].id : n \in InUse(q)} = {q.s[n].id : n \in InUse(e)} \union {q.s[m].id}
      BY <1>11
    <3> QED BY <1>7, <1>10, <3>1, <3>2, <3>3
  <2>2. ASSUME NEW n \in InUse(q)
        PROVE  /\ q.ev[q.s[n].id] <=> q.s[n].wb # <<>>
               /\ q.s[n].status = "halfclose" => q.s[n].wb # <<>>
    <3>1. CASE n = m
      BY <1>7, <1>10, <3>1
    <3>2. CASE n # m
      <4>1. n \in InUse(e) /\ q.s[n] = e.s[n]
        BY <1>11, <1>13, <3>2
      <4>2. e.s[n].id \in DOMAIN e.ev
        BY <1>4, <4>1 DEF EventsSet
      <4>3. q.ev[q.s[n].id] = e.ev[e.s[n].id]
        BY <1>10, <4>1, <4>2
      <4> QED BY <1>4, <4>1, <4>3 DEF EventsSet
    <3> QED BY <3>1, <3>2
  <2> QED BY <2>1, <2>2 DEF EventsSet
<1>17. PoolOK(q)
  BY <1>12, <1>14, <1>15, <1>16 DEF PoolOK
<1>18. ASSUME NEW w \in DOMAIN p.ev PROVE Slot(q, w) = Slot(p, w)
  <2>1. w % Cap(e) \in InUse(e) /\ Slot(e, w) = Slot(p, w)
    BY <1>1, SlotFound
  <2>2. q.s[w % Cap(e)] = e.s[w % Cap(e)]
    BY <1>13, <2>1
  <2> QED BY <1>10, <2>1, <2>2 DEF Slot
<1>19. Slot(q, id) = slot
  BY <1>10 DEF Slot, m
<1> QED BY <1>1, <1>2, <1>6, <1>9, <1>10, <1>17, <1>18, <1>19 DEF q, slot, id

-----------------------------------------------------------------------------
(* Sequences                                                               *)

\* The bytes 1, 2, ..., n.
LEMMA UptoType ==
  ASSUME NEW n \in Nat
  PROVE  /\ Upto(n) \in Seq(Nat) /\ Len(Upto(n)) = n
         /\ \A i \in 1 .. n : Upto(n)[i] = i
<1>1. Upto(n) \in [1 .. n -> Nat]
  BY DEF Upto
<1>2. Upto(n) \in Seq(Nat)
  BY <1>1, SeqDef
<1>3. DOMAIN Upto(n) = 1 .. n
  BY DEF Upto
<1>4. Len(Upto(n)) = n
  BY <1>2, <1>3, LenProperties
<1> QED BY <1>2, <1>4 DEF Upto

\* The numbers after a, as many as n.
From(a, n) == [i \in 1 .. n |-> a + i]

\* The n bytes after the first a.
LEMMA FromType ==
  ASSUME NEW a \in Nat, NEW n \in Nat
  PROVE  /\ From(a, n) \in Seq(Nat) /\ Len(From(a, n)) = n
         /\ \A i \in 1 .. n : From(a, n)[i] = a + i
<1>1. From(a, n) \in [1 .. n -> Nat]
  BY DEF From
<1>2. From(a, n) \in Seq(Nat)
  BY <1>1, SeqDef
<1>3. DOMAIN From(a, n) = 1 .. n
  BY DEF From
<1>4. Len(From(a, n)) = n
  BY <1>2, <1>3, LenProperties
<1> QED BY <1>2, <1>4 DEF From

\* The first a bytes and the n after them are the first a + n.
LEMMA UptoMore ==
  ASSUME NEW a \in Nat, NEW n \in Nat
  PROVE  Upto(a) \o From(a, n) = Upto(a + n)
<1> DEFINE u == Upto(a)
           f == From(a, n)
           v == Upto(a + n)
<1>1. /\ u \in Seq(Nat) /\ Len(u) = a /\ \A i \in 1 .. a : u[i] = i
      /\ f \in Seq(Nat) /\ Len(f) = n /\ \A i \in 1 .. n : f[i] = a + i
      /\ v \in Seq(Nat) /\ Len(v) = a + n /\ \A i \in 1 .. a + n : v[i] = i
  <2>1. u \in Seq(Nat) /\ Len(u) = a /\ \A i \in 1 .. a : u[i] = i
    BY UptoType
  <2>2. f \in Seq(Nat) /\ Len(f) = n /\ \A i \in 1 .. n : f[i] = a + i
    BY FromType
  <2>3. a + n \in Nat
    OBVIOUS
  <2>4. v \in Seq(Nat) /\ Len(v) = a + n /\ \A i \in 1 .. a + n : v[i] = i
    BY <2>3, UptoType
  <2> QED BY <2>1, <2>2, <2>4
<1> HIDE DEF u, f, v
<1>2. /\ u \o f \in Seq(Nat) /\ Len(u \o f) = a + n
      /\ \A i \in 1 .. a + n : (u \o f)[i] = IF i <= a THEN u[i] ELSE f[i - a]
  <2>1. u \in Seq(Nat) /\ f \in Seq(Nat) /\ Len(u) = a /\ Len(f) = n
    BY <1>1
  <2>2. /\ u \o f \in Seq(Nat) /\ Len(u \o f) = Len(u) + Len(f)
        /\ \A i \in 1 .. Len(u) + Len(f) : (u \o f)[i] = IF i <= Len(u) THEN u[i] ELSE f[i - Len(u)]
    BY <2>1, ConcatProperties
  <2> QED BY <2>1, <2>2
<1> DEFINE w == u \o f
<1> HIDE DEF w
<1>3. ASSUME NEW i \in 1 .. a + n PROVE w[i] = v[i]
  <2>1. w[i] = IF i <= a THEN u[i] ELSE f[i - a]
    BY <1>2 DEF w
  <2>2. i <= a => i \in 1 .. a
    OBVIOUS
  <2>3. ~(i <= a) => i - a \in 1 .. n /\ a + (i - a) = i
    OBVIOUS
  <2>4. i <= a => w[i] = i
    BY <1>1, <2>1, <2>2
  <2>5. ~(i <= a) => w[i] = i
    BY <1>1, <2>1, <2>3
  <2> QED BY <1>1, <2>4, <2>5
<1>4. w \in Seq(Nat) /\ Len(w) = Len(v)
  BY <1>1, <1>2 DEF w
<1>5. w = v
  BY <1>1, <1>3, <1>4, SeqEqual
<1> QED BY <1>5 DEF w, u, f, v

\* What comes first of the bytes 1, 2, ... are the bytes 1, 2, ... .
LEMMA UptoPrefix ==
  ASSUME NEW a \in Seq(Nat), NEW b \in Seq(Nat), NEW n \in Nat, a \o b = Upto(n)
  PROVE  a = Upto(Len(a)) /\ n = Len(a) + Len(b)
<1>1. /\ Len(a) \in Nat /\ Len(b) \in Nat /\ Len(a \o b) = Len(a) + Len(b)
      /\ \A i \in 1 .. Len(a) + Len(b) : (a \o b)[i] = IF i <= Len(a) THEN a[i] ELSE b[i - Len(a)]
  BY ConcatProperties, LenProperties
<1>2. Len(Upto(n)) = n /\ \A i \in 1 .. n : Upto(n)[i] = i
  BY UptoType
<1>3. n = Len(a) + Len(b)
  BY <1>1, <1>2
<1> DEFINE u == Upto(Len(a))
<1>4. u \in Seq(Nat) /\ Len(u) = Len(a) /\ \A i \in 1 .. Len(a) : u[i] = i
  BY <1>1, UptoType
<1> HIDE DEF u
<1>5. ASSUME NEW i \in 1 .. Len(a) PROVE a[i] = u[i]
  <2>1. i \in 1 .. n /\ i <= Len(a)
    BY <1>1, <1>3
  <2>2. (a \o b)[i] = a[i]
    BY <1>1, <1>3, <2>1
  <2> QED BY <1>2, <1>4, <2>1, <2>2
<1>6. a = u
  BY <1>4, <1>5, SeqEqual
<1> QED BY <1>3, <1>6 DEF u

\* A sequence is what comes before a place and what comes after it.
LEMMA Halves ==
  ASSUME NEW S, NEW h \in Seq(S), NEW k \in 0 .. Len(h)
  PROVE  /\ SubSeq(h, 1, k) \in Seq(S) /\ SubSeq(h, k + 1, Len(h)) \in Seq(S)
         /\ SubSeq(h, 1, k) \o SubSeq(h, k + 1, Len(h)) = h
         /\ k = 0 => SubSeq(h, 1, k) = <<>> /\ SubSeq(h, k + 1, Len(h)) = h
         /\ k = Len(h) => SubSeq(h, 1, k) = h /\ SubSeq(h, k + 1, Len(h)) = <<>>
<1>1. Len(h) \in Nat /\ k \in Int /\ k + 1 \in Int /\ k \in Nat
  BY LenProperties
<1>2. \A i \in 1 .. Len(h) : h[i] \in S
  BY ElementOfSeq
<1>3. \A i \in 1 .. k : h[i] \in S
  BY <1>1, <1>2
<1>4. \A i \in k + 1 .. Len(h) : h[i] \in S
  BY <1>1, <1>2
<1>5. SubSeq(h, 1, k) \in Seq(S) /\ SubSeq(h, k + 1, Len(h)) \in Seq(S)
  BY <1>1, <1>3, <1>4, SubSeqProperties
<1>6. SubSeq(h, 1, Len(h)) = h
  BY SubSeqFull
<1>7. SubSeq(h, 1, k) \o SubSeq(h, k + 1, Len(h)) = h
  <2>1. 1 \in 1 .. Len(h) + 1 /\ k \in 1 - 1 .. Len(h) /\ Len(h) \in k .. Len(h)
    BY <1>1
  <2> QED BY <1>6, <2>1, ConcatAdjacentSubSeq
<1>8. k = 0 => SubSeq(h, 1, k) = <<>>
  BY SubSeqEmpty
<1>9. k = Len(h) => SubSeq(h, k + 1, Len(h)) = <<>>
  BY <1>1, SubSeqEmpty
<1>10. k = 0 => SubSeq(h, k + 1, Len(h)) = h
  BY <1>6
<1>11. k = Len(h) => SubSeq(h, 1, k) = h
  BY <1>6
<1> QED BY <1>5, <1>7, <1>8, <1>9, <1>10, <1>11

\* The pieces of the results that are a socket's.
Pieces(res, id) == [i \in DOMAIN res |-> IF res[i].fd = id THEN res[i].bytes ELSE <<>>]

\* What the results have for a socket, in one; it is InResult when res is result.
Gathered(res, id) == FlattenSeq(Pieces(res, id))

\* A result, whatever sockets are open.
Entry(V) == [fd : Nat, bytes : Seq(Byte), new : V]

\* The fields of a result.
LEMMA EntryFields ==
  ASSUME NEW V, NEW x \in Entry(V)
  PROVE  x.fd \in Nat /\ x.bytes \in Seq(Byte) /\ x.new \in V
BY DEF Entry

\* What each result has for a socket.
LEMMA PiecesType ==
  ASSUME NEW V, NEW res \in Seq(Entry(V)), NEW id
  PROVE  /\ Pieces(res, id) \in Seq(Seq(Byte)) /\ Len(Pieces(res, id)) = Len(res)
         /\ \A i \in 1 .. Len(res) :
              Pieces(res, id)[i] = IF res[i].fd = id THEN res[i].bytes ELSE <<>>
<1>1. DOMAIN res = 1 .. Len(res) /\ Len(res) \in Nat
  BY LenProperties
<1>2. ASSUME NEW i \in 1 .. Len(res) PROVE res[i].bytes \in Seq(Byte)
  BY ElementOfSeq, EntryFields
<1>3. <<>> \in Seq(Byte)
  BY EmptySeq
<1> DEFINE f == Pieces(res, id)
<1>4. f = [i \in 1 .. Len(res) |-> IF res[i].fd = id THEN res[i].bytes ELSE <<>>]
  BY <1>1 DEF Pieces
<1>5. \A i \in 1 .. Len(res) : f[i] = IF res[i].fd = id THEN res[i].bytes ELSE <<>>
  BY <1>4
<1>6. \A i \in 1 .. Len(res) : f[i] \in Seq(Byte)
  BY <1>2, <1>3, <1>5
<1>7. f = [i \in 1 .. Len(res) |-> f[i]]
  BY <1>4
<1> DEFINE T == Seq(Byte)
<1> HIDE DEF f, T
<1>8. f \in [1 .. Len(res) -> T]
  BY <1>6, <1>7 DEF T
<1>9. f \in Seq(T)
  BY <1>1, <1>8, SeqDef
<1>10. Len(f) = Len(res)
  <2>1. DOMAIN f = 1 .. Len(res)
    BY <1>8
  <2>2. DOMAIN f = 1 .. Len(f) /\ Len(f) \in Nat
    BY <1>9, LenProperties
  <2> QED BY <1>1, <2>1, <2>2
<1> QED BY <1>5, <1>9, <1>10 DEF f, T

\* All that the results have for a socket is a sequence of bytes.
LEMMA GatheredType ==
  ASSUME NEW V, NEW res \in Seq(Entry(V)), NEW id
  PROVE  Gathered(res, id) \in Seq(Byte)
BY PiecesType, FlattenType DEF Gathered

\* Nothing is gathered of a socket without results.
LEMMA GatheredNone ==
  ASSUME NEW V, NEW res \in Seq(Entry(V)), NEW id, \A i \in 1 .. Len(res) : res[i].fd # id
  PROVE  Gathered(res, id) = <<>>
<1> DEFINE f == Pieces(res, id)
           T == Seq({})
<1>1. f \in Seq(Seq(Byte)) /\ Len(f) = Len(res) /\ \A i \in 1 .. Len(res) : f[i] = <<>>
  BY PiecesType
<1>2. <<>> \in T
  BY EmptySeq
<1> HIDE DEF f
<1>3. Len(f) \in Nat /\ DOMAIN f = 1 .. Len(f) /\ f = [i \in 1 .. Len(f) |-> f[i]]
  BY <1>1, LenProperties
<1>4. f \in [1 .. Len(f) -> T]
  <2> HIDE DEF T
  <2> QED BY <1>1, <1>2, <1>3
<1>5. f \in Seq(T)
  <2> HIDE DEF T
  <2> QED BY <1>3, <1>4, SeqDef
<1>6. FlattenSeq(f) \in Seq({})
  BY <1>5, FlattenType
<1> DEFINE g == FlattenSeq(f)
<1> HIDE DEF g
<1>7. g = <<>>
  <2>1. ASSUME g # <<>> PROVE FALSE
    <3>1. Head(g) \in {}
      BY <1>6, <2>1, HeadTailProperties DEF g
    <3> QED BY <3>1
  <2> QED BY <2>1
<1> QED BY <1>7 DEF g, f, Gathered

\* Another result adds its bytes to those of its socket.
LEMMA GatheredAppend ==
  ASSUME NEW V, NEW res \in Seq(Entry(V)), NEW x \in Entry(V), NEW id
  PROVE  Gathered(Append(res, x), id)
           = IF x.fd = id THEN Gathered(res, id) \o x.bytes ELSE Gathered(res, id)
<1> DEFINE b == IF x.fd = id THEN x.bytes ELSE <<>>
           r == Append(res, x)
           f == Pieces(res, id)
           g == Pieces(r, id)
           T == Seq(Byte)
<1>1. b \in T
  BY EntryFields, EmptySeq
<1>2. /\ r \in Seq(Entry(V)) /\ Len(r) = Len(res) + 1 /\ r[Len(res) + 1] = x /\ Len(res) \in Nat
      /\ \A i \in 1 .. Len(res) : r[i] = res[i]
  BY AppendProperties, LenProperties
<1> HIDE DEF r
<1>3. f \in Seq(T) /\ Len(f) = Len(res)
      /\ \A i \in 1 .. Len(res) : f[i] = IF res[i].fd = id THEN res[i].bytes ELSE <<>>
  BY PiecesType
<1>4. g \in Seq(T) /\ Len(g) = Len(r)
      /\ \A i \in 1 .. Len(r) : g[i] = IF r[i].fd = id THEN r[i].bytes ELSE <<>>
  BY <1>2, PiecesType
<1> HIDE DEF f, g, T
<1>5. /\ Append(f, b) \in Seq(T) /\ Len(Append(f, b)) = Len(f) + 1
      /\ \A i \in 1 .. Len(f) : Append(f, b)[i] = f[i]
      /\ Append(f, b)[Len(f) + 1] = b
  <2> HIDE DEF b
  <2> QED BY <1>1, <1>3, AppendProperties
<1> DEFINE h == Append(f, b)
<1> HIDE DEF h
<1>6. ASSUME NEW i \in 1 .. Len(g) PROVE g[i] = h[i]
  <2>1. CASE i = Len(res) + 1
    BY <1>2, <1>3, <1>4, <1>5, <2>1 DEF h
  <2>2. CASE i # Len(res) + 1
    <3>1. i \in 1 .. Len(res) /\ i \in 1 .. Len(r)
      BY <1>2, <1>4, <2>2
    <3>2. g[i] = f[i]
      BY <1>2, <1>3, <1>4, <3>1
    <3> QED BY <1>3, <1>5, <3>1, <3>2 DEF h
  <2> QED BY <2>1, <2>2
<1>7. g = h
  <2>1. Len(g) = Len(h) /\ h \in Seq(T)
    BY <1>2, <1>3, <1>4, <1>5 DEF h
  <2> QED BY <1>4, <1>6, <2>1, SeqEqual
<1>8. FlattenSeq(g) = FlattenSeq(f) \o b
  <2> HIDE DEF b
  <2> QED BY <1>1, <1>3, <1>7, FlattenAppend DEF h, T
<1>9. FlattenSeq(f) \o <<>> = FlattenSeq(f)
  BY <1>3, FlattenType, ConcatEmptySeq DEF T
<1> QED BY <1>8, <1>9 DEF f, g, r, Gathered

\* A result that is passed on takes its bytes from those of its socket.
LEMMA GatheredTail ==
  ASSUME NEW V, NEW res \in Seq(Entry(V)), res # <<>>, NEW id
  PROVE  Gathered(res, id)
           = IF Head(res).fd = id THEN Head(res).bytes \o Gathered(Tail(res), id)
             ELSE Gathered(Tail(res), id)
<1> DEFINE r == Tail(res)
           f == Pieces(res, id)
           g == Pieces(r, id)
           T == Seq(Byte)
<1>1. /\ r \in Seq(Entry(V)) /\ Len(r) = Len(res) - 1 /\ Head(res) \in Entry(V)
      /\ \A i \in 1 .. Len(r) : r[i] = res[i + 1]
      /\ Len(res) \in Nat \ {0} /\ Head(res) = res[1]
  BY HeadTailProperties, EmptySeq
<1> HIDE DEF r
<1>2. f \in Seq(T) /\ Len(f) = Len(res)
      /\ \A i \in 1 .. Len(res) : f[i] = IF res[i].fd = id THEN res[i].bytes ELSE <<>>
  BY PiecesType
<1>3. g \in Seq(T) /\ Len(g) = Len(r)
      /\ \A i \in 1 .. Len(r) : g[i] = IF r[i].fd = id THEN r[i].bytes ELSE <<>>
  BY <1>1, PiecesType
<1> HIDE DEF f, g, T
<1>4. f # <<>>
  BY <1>1, <1>2, EmptySeq
<1>5. /\ Tail(f) \in Seq(T) /\ Len(Tail(f)) = Len(f) - 1 /\ Head(f) = f[1]
      /\ \A i \in 1 .. Len(Tail(f)) : Tail(f)[i] = f[i + 1]
  BY <1>2, <1>4, HeadTailProperties
<1> DEFINE t == Tail(f)
<1> HIDE DEF t
<1>6. ASSUME NEW i \in 1 .. Len(g) PROVE g[i] = t[i]
  <2>1. i + 1 \in 1 .. Len(res) /\ i \in 1 .. Len(r) /\ i \in 1 .. Len(t)
    BY <1>1, <1>2, <1>3, <1>5 DEF t
  <2>2. g[i] = f[i + 1]
    BY <1>1, <1>2, <1>3, <2>1
  <2> QED BY <1>5, <2>1, <2>2 DEF t
<1>7. g = t
  <2>1. Len(g) = Len(t) /\ t \in Seq(T)
    BY <1>1, <1>2, <1>3, <1>5 DEF t
  <2> QED BY <1>3, <1>6, <2>1, SeqEqual
<1>8. FlattenSeq(f) = Head(f) \o FlattenSeq(g)
  BY <1>2, <1>4, <1>7, FlattenHead DEF t, T
<1>9. Head(f) = IF Head(res).fd = id THEN Head(res).bytes ELSE <<>>
  <2>1. 1 \in 1 .. Len(res)
    BY <1>1
  <2> QED BY <1>1, <1>2, <1>5, <2>1
<1>10. FlattenSeq(g) \in Seq(Byte)
  BY <1>3, FlattenType DEF T
<1>11. <<>> \o FlattenSeq(g) = FlattenSeq(g)
  BY <1>10, ConcatEmptySeq
<1> QED BY <1>8, <1>9, <1>11 DEF f, g, r, Gathered

\* Nothing is written to a new socket.
LEMMA NothingWritten ==
  <<>> = Upto(Len(<<>>)) /\ <<>> \o FlattenSeq(<<>>) = Upto(0)
<1>1. Upto(0) \in Seq(Nat) /\ Len(Upto(0)) = 0
  BY UptoType
<1>2. Upto(0) = <<>>
  BY <1>1, EmptySeq
<1>3. Len(<<>>) = 0 /\ <<>> \o <<>> = <<>>
  BY EmptySeq, ConcatEmptySeq
<1> QED BY <1>2, <1>3, FlattenEmpty

-----------------------------------------------------------------------------
(* The invariant while the socket cell lives                               *)

\* The type of event.
EventType == [id : Opened \union {0}, read : BOOLEAN, write : BOOLEAN]

\* The types of the variables but the pool, while the cell lives.
Types ==
  /\ Watched \subseteq Opened
  /\ Opened \subseteq 1 .. pool.id - 1 /\ conn \in [Opened -> ConnType]
  /\ DOMAIN sockets \subseteq Opened
  /\ sockets \in [DOMAIN sockets -> Cell \union {Nobody} \union Table]
  /\ alive \subseteq Cell
  /\ phase \in {"sleep", "poll", "dead"}
  /\ ready \subseteq Opened
  /\ event \in EventType
  /\ result \in Seq(ResultType)

\* What is left to poll is open, or was until its event closed it.
Polling == ready \union (IF event.read THEN {event.id} ELSE {}) \subseteq Watched

\* The inductive invariant, while the cell lives.
Live ==
  /\ PoolOK(pool) /\ Types /\ Polling
  /\ WritesInOrder /\ OwnerGetsAll /\ ClosedIsHeard /\ NoOrphan /\ MainDiesOfReuse
  /\ Rounds /\ Owners /\ Fresh /\ ReusedLater

\* The invariants of the pool, in one.
LEMMA PoolOfIInv ==
  ASSUME TypeOK, IdFindsSlot, WatchedIsOpen, Cap(pool) # 0
  PROVE  PoolOK(pool)
<1>1. PoolTypes(pool)
  BY DEF TypeOK, PoolTypes
<1>2. /\ DOMAIN pool.s = 0 .. Cap(pool) - 1
      /\ \A n \in DOMAIN pool.s : pool.s[n].id \in Nat
      /\ \A w \in Nat : w % Cap(pool) \in DOMAIN pool.s
      /\ InUse(pool) \subseteq DOMAIN pool.s
  BY <1>1, PoolDomain
<1>3. Watched \subseteq Opened /\ Opened \subseteq 1 .. pool.id - 1 /\ pool.id \in Nat
  BY DEF TypeOK
<1>4. \A n \in InUse(pool) : pool.s[n].id \in Watched
  BY DEF WatchedIsOpen
<1>5. Placed(pool)
  BY <1>3, <1>4 DEF IdFindsSlot, Placed
<1>6. EventsSet(pool)
  <2>1. ASSUME NEW n \in InUse(pool)
        PROVE  pool.ev[pool.s[n].id] <=> pool.s[n].wb # <<>>
    <3>1. Slot(pool, pool.s[n].id) = pool.s[n]
      BY <1>5 DEF Placed, Slot
    <3> QED BY <1>4, <3>1 DEF WatchedIsOpen
  <2> QED BY <2>1 DEF WatchedIsOpen, EventsSet, Watched
<1> QED BY <1>1, <1>5, <1>6 DEF PoolOK, IdFindsSlot

\* While the cell lives the invariant is Live.
LEMMA LiveOfIInv ==
  ASSUME IInv, phase # "exited"
  PROVE  Live
<1>1. TypeOK /\ IdFindsSlot /\ WatchedIsOpen /\ Cap(pool) # 0
  BY DEF IInv, IdFindsSlot, Rounds
<1>2. PoolOK(pool)
  BY <1>1, PoolOfIInv
<1>3. Types
  BY <1>1 DEF TypeOK, Types, ResultType, EventType
<1>4. Polling
  BY <1>1 DEF WatchedIsOpen, Polling
<1> QED BY <1>2, <1>3, <1>4 DEF Live, IInv

\* Conversely, Live is the invariant.
LEMMA LiveToIInv == Live => IInv
<1> SUFFICES ASSUME Live PROVE IInv
  OBVIOUS
<1>1. PoolTypes(pool) /\ Placed(pool) /\ EventsSet(pool) /\ pool.count = Cardinality(InUse(pool))
  BY DEF Live, PoolOK
<1>2. Types /\ Polling
  BY DEF Live
<1>3. TypeOK
  BY <1>1, <1>2 DEF PoolTypes, Types, TypeOK, Watched, ResultType, EventType
<1>4. IdFindsSlot
  <2>1. \A n \in InUse(pool) : pool.s[n].id % Cap(pool) = n /\ pool.s[n].id < pool.id
    <3>1. pool.id \in Nat
      BY <1>1 DEF PoolTypes
    <3> QED BY <1>1, <3>1 DEF Placed
  <2> QED BY <1>1, <1>3, <2>1 DEF IdFindsSlot, Placed
<1>5. WatchedIsOpen
  <2>1. \A id \in Watched : pool.ev[id] <=> Slot(pool, id).wb # <<>>
    BY SlotFound DEF Live, Watched
  <2> QED BY <1>1, <1>2, <2>1 DEF EventsSet, WatchedIsOpen, Polling, Watched
<1> QED BY <1>4, <1>5 DEF Live, IInv

\* An entry of the results.
LEMMA ResultFields ==
  ASSUME NEW r \in ResultType
  PROVE  /\ r.fd \in Opened /\ r.bytes \in Seq(Byte) /\ r.new \in Opened \union {Nobody}
         /\ r = [fd |-> r.fd, bytes |-> r.bytes, new |-> r.new]
         /\ r.new # Nobody => r.bytes = <<>>
<1>1. <<>> \in Seq(Byte)
  BY EmptySeq
<1>2. CASE r \in [fd : Opened, bytes : Seq(Byte), new : {Nobody}]
  BY <1>2
<1>3. CASE r \in [fd : Opened, bytes : {<<>>}, new : Opened]
  BY <1>1, <1>3
<1> QED BY <1>2, <1>3 DEF ResultType

\* What the actions need of the types.
LEMMA Typed ==
  ASSUME Live
  PROVE  /\ PoolOK(pool) /\ pool.id \in Nat \ {0} /\ Watched = DOMAIN pool.ev /\ Watched \subseteq Opened
         /\ Opened \subseteq Nat \ {0} /\ Nobody \notin Opened
         /\ \A id \in Opened : conn[id] \in ConnType
         /\ alive \subseteq Cell
         /\ phase \in {"sleep", "poll", "dead"}
         /\ event.id \in Opened \union {0} /\ event.read \in BOOLEAN /\ event.write \in BOOLEAN
         /\ event = [id |-> event.id, read |-> event.read, write |-> event.write]
         /\ result \in Seq(ResultType)
         /\ DOMAIN result = 1 .. Len(result) /\ Len(result) \in Nat
         /\ \A i \in DOMAIN result : /\ result[i].fd \in Opened
                                     /\ result[i].bytes \in Seq(Byte)
                                     /\ result[i].new \in Opened \union {Nobody}
<1>1. PoolOK(pool) /\ pool.id \in Nat \ {0} /\ Types
  BY DEF Live, PoolOK, PoolTypes
<1>2. Opened \subseteq Nat \ {0}
  BY <1>1 DEF Types
<1>3. Nobody \notin Opened
  BY <1>2, ValueAssumption
<1>4. event = [id |-> event.id, read |-> event.read, write |-> event.write]
      /\ event.id \in Opened \union {0} /\ event.read \in BOOLEAN /\ event.write \in BOOLEAN
  BY <1>1 DEF Types, EventType
<1>5. result \in Seq(ResultType)
  BY <1>1 DEF Types
<1>6. DOMAIN result = 1 .. Len(result) /\ Len(result) \in Nat
  BY <1>5, LenProperties
<1>7. \A i \in 1 .. Len(result) : result[i] \in ResultType
  BY <1>5, ElementOfSeq
<1>8. \A i \in DOMAIN result : /\ result[i].fd \in Opened
                               /\ result[i].bytes \in Seq(Byte)
                               /\ result[i].new \in Opened \union {Nobody}
  BY <1>6, <1>7, ResultFields
<1>9. \A id \in Opened : conn[id] \in ConnType
  BY <1>1 DEF Types
<1>10. alive \subseteq Cell /\ phase \in {"sleep", "poll", "dead"} /\ Watched \subseteq Opened
  BY <1>1 DEF Types
<1> QED BY <1>1, <1>2, <1>3, <1>4, <1>5, <1>6, <1>8, <1>9, <1>10 DEF Watched

\* The history of a socket, field by field.
Conn(got, given, out, written, told, left) ==
  [got |-> got, given |-> given, out |-> out, written |-> written, told |-> told, left |-> left]

\* The fields of a history.
LEMMA ConnFields ==
  ASSUME NEW c \in ConnType
  PROVE  /\ c = Conn(c.got, c.given, c.out, c.written, c.told, c.left)
         /\ c.got \in Seq(Byte) /\ c.given \in Seq(Byte) /\ c.out \in Seq(Nat)
         /\ c.written \in Nat /\ c.told \in {"no", "yes", "forward"}
         /\ c.left \in {"no", "asked", "failed", "orphan"}
BY DEF ConnType, Conn

\* The history of a new socket is empty.
LEMMA NewConnOf ==
  ASSUME NEW told \in {"no", "yes", "forward"}
  PROVE  /\ NewConn(told) \in ConnType /\ NewConn(told).got = <<>> /\ NewConn(told).given = <<>>
         /\ NewConn(told).out = <<>> /\ NewConn(told).written = 0
         /\ NewConn(told).told = told /\ NewConn(told).left = "no"
<1>1. <<>> \in Seq(Byte) /\ <<>> \in Seq(Nat) /\ 0 \in Nat
  BY EmptySeq
<1>2. NewConn(told) = Conn(<<>>, <<>>, <<>>, 0, told, "no")
  BY DEF NewConn, Conn
<1> DEFINE c == Conn(<<>>, <<>>, <<>>, 0, told, "no")
<1>3. /\ c \in ConnType /\ c.got = <<>> /\ c.given = <<>> /\ c.out = <<>> /\ c.written = 0
      /\ c.told = told /\ c.left = "no"
  BY <1>1 DEF Conn, ConnType
<1> HIDE DEF c
<1> QED BY <1>2, <1>3 DEF c

\* What becomes of it, one field at a time.
LEMMA ConnWith ==
  ASSUME NEW g, NEW v, NEW o, NEW w, NEW t, NEW l, NEW b
  PROVE  LET c == Conn(g, v, o, w, t, l) IN
         /\ [c EXCEPT !.got = b] = Conn(b, v, o, w, t, l)
         /\ [c EXCEPT !.given = b] = Conn(g, b, o, w, t, l)
         /\ [c EXCEPT !.out = b] = Conn(g, v, b, w, t, l)
         /\ [c EXCEPT !.written = b] = Conn(g, v, o, b, t, l)
         /\ [c EXCEPT !.told = b] = Conn(g, v, o, w, b, l)
         /\ [c EXCEPT !.left = b] = Conn(g, v, o, w, t, b)
BY DEF Conn

\* A history with one field changed.
LEMMA ConnChanges ==
  ASSUME NEW c \in ConnType, NEW b
  PROVE  /\ [c EXCEPT !.got = b] = Conn(b, c.given, c.out, c.written, c.told, c.left)
         /\ [c EXCEPT !.given = b] = Conn(c.got, b, c.out, c.written, c.told, c.left)
         /\ [c EXCEPT !.out = b] = Conn(c.got, c.given, b, c.written, c.told, c.left)
         /\ [c EXCEPT !.written = b] = Conn(c.got, c.given, c.out, b, c.told, c.left)
         /\ [c EXCEPT !.told = b] = Conn(c.got, c.given, c.out, c.written, b, c.left)
         /\ [c EXCEPT !.left = b] = Conn(c.got, c.given, c.out, c.written, c.told, b)
<1>1. PICK g, v, o, w, t, l : /\ c = Conn(g, v, o, w, t, l)
                              /\ g = c.got /\ v = c.given /\ o = c.out /\ w = c.written
                              /\ t = c.told /\ l = c.left
  BY ConnFields
<1>2. /\ [c EXCEPT !.got = b] = Conn(b, v, o, w, t, l)
      /\ [c EXCEPT !.given = b] = Conn(g, b, o, w, t, l)
      /\ [c EXCEPT !.out = b] = Conn(g, v, b, w, t, l)
      /\ [c EXCEPT !.written = b] = Conn(g, v, o, b, t, l)
      /\ [c EXCEPT !.told = b] = Conn(g, v, o, w, b, l)
      /\ [c EXCEPT !.left = b] = Conn(g, v, o, w, t, b)
  <2> DEFINE d == Conn(g, v, o, w, t, l)
  <2>1. c = d
    BY <1>1
  <2>2. /\ [d EXCEPT !.got = b] = Conn(b, v, o, w, t, l)
        /\ [d EXCEPT !.given = b] = Conn(g, b, o, w, t, l)
        /\ [d EXCEPT !.out = b] = Conn(g, v, b, w, t, l)
        /\ [d EXCEPT !.written = b] = Conn(g, v, o, b, t, l)
        /\ [d EXCEPT !.told = b] = Conn(g, v, o, w, b, l)
        /\ [d EXCEPT !.left = b] = Conn(g, v, o, w, t, b)
    BY ConnWith
  <2> HIDE DEF d
  <2> QED BY <2>1, <2>2
<1> QED BY <1>1, <1>2

\* What the table sockets has for a socket.
V == Cell \union {Nobody} \union Table

\* The table of owners, once an entry is set.
SocketsSet(id, v) ==
  /\ DOMAIN sockets' = DOMAIN sockets \union {id}
  /\ sockets' \in [DOMAIN sockets' -> V]
  /\ \A w : Owner(w)' = IF w = id THEN v ELSE Owner(w)

\* A socket in the table gets another owner, and no other does.
LEMMA OwnerChanged ==
  ASSUME Live, NEW id \in DOMAIN sockets, NEW v \in V, sockets' = [sockets EXCEPT ![id] = v]
  PROVE  SocketsSet(id, v)
<1>1. sockets \in [DOMAIN sockets -> V]
  BY DEF Live, Types, V
<1>2. DOMAIN sockets' = DOMAIN sockets \union {id}
  OBVIOUS
<1>3. sockets' \in [DOMAIN sockets' -> V]
  BY <1>1
<1>4. ASSUME NEW w PROVE Owner(w)' = IF w = id THEN v ELSE Owner(w)
  BY DEF Owner
<1> QED BY <1>2, <1>3, <1>4 DEF SocketsSet

\* A socket gets into the table, and no other changes its owner.
LEMMA OwnerAdded ==
  ASSUME Live, NEW id, NEW v \in V, sockets' = With(sockets, id, v)
  PROVE  SocketsSet(id, v)
<1>1. sockets \in [DOMAIN sockets -> V]
  BY DEF Live, Types, V
<1>2. DOMAIN sockets' = DOMAIN sockets \union {id}
  BY DEF With
<1>3. sockets' \in [DOMAIN sockets' -> V]
  BY <1>1 DEF With
<1>4. ASSUME NEW w PROVE Owner(w)' = IF w = id THEN v ELSE Owner(w)
  BY DEF Owner, With
<1> QED BY <1>2, <1>3, <1>4 DEF SocketsSet

\* An owner is a cell, a table of data or nobody, and never two of these.
LEMMA OwnerTypes ==
  ASSUME Live
  PROVE  /\ \A w : Owner(w) # Nobody => w \in DOMAIN sockets
         /\ \A w : Kept(w) => Owner(w) \in Table /\ Owner(w) = sockets[w]
         /\ \A w : Owner(w) \in Table => Kept(w)
         /\ DOMAIN sockets \subseteq Opened
         /\ Nobody \notin Cell /\ Nobody \in V /\ Cell \subseteq V /\ Table \subseteq V
         /\ <<>> \in Table /\ Nobody \notin Table /\ \A c \in Cell : c \notin Table
<1>1. sockets \in [DOMAIN sockets -> V] /\ DOMAIN sockets \subseteq Opened
  BY DEF Live, Types, V
<1>2. Nobody \notin Cell /\ Nobody \notin Table /\ \A c \in Cell : c \notin Table
  BY ValueAssumption
<1>3. <<>> \in Table
  BY EmptySeq DEF Table
<1>4. \A w : Owner(w) # Nobody => w \in DOMAIN sockets
  BY DEF Owner
<1>5. \A w : Kept(w) => Owner(w) \in Table /\ Owner(w) = sockets[w]
  BY <1>1 DEF Owner, Kept, V
<1>6. \A w : Owner(w) \in Table => Kept(w)
  BY <1>2 DEF Kept
<1> QED BY <1>1, <1>2, <1>3, <1>4, <1>5, <1>6 DEF V

\* A new history for an open socket leaves the others alone.
LEMMA ConnSet ==
  ASSUME Live, NEW id \in Opened, NEW x \in ConnType, conn' = [conn EXCEPT ![id] = x]
  PROVE  /\ Opened' = Opened /\ conn' \in [Opened' -> ConnType]
         /\ conn'[id] = x /\ \A w \in Opened \ {id} : conn'[w] = conn[w]
<1>1. conn \in [Opened -> ConnType]
  BY DEF Live, Types
<1> QED BY <1>1 DEF Opened

\* A socket that is opened has a history, and the others keep theirs.
LEMMA ConnAdded ==
  ASSUME Live, NEW id \in Nat, id \notin Opened, NEW x \in ConnType, conn' = With(conn, id, x)
  PROVE  /\ Opened' = Opened \union {id} /\ conn' \in [Opened' -> ConnType]
         /\ conn'[id] = x /\ \A w \in Opened : conn'[w] = conn[w]
<1>1. conn \in [Opened -> ConnType]
  BY DEF Live, Types
<1>2. DOMAIN conn' = Opened \union {id}
  BY DEF With, Opened
<1> QED BY <1>1, <1>2 DEF Opened, With

\* Owner, InTable and InResult when nothing of theirs changes.
LEMMA OwnerSame ==
  ASSUME UNCHANGED sockets
  PROVE  \A w : Owner(w)' = Owner(w) /\ Kept(w)' = Kept(w) /\ InTable(w)' = InTable(w)
BY DEF Owner, Kept, InTable

\* The results for a socket are the same while result is.
LEMMA ResultSame ==
  ASSUME UNCHANGED result
  PROVE  \A w : InResult(w)' = InResult(w)
BY DEF InResult

\* A step of main that moves on in its round only.
LEMMA ControlOnly ==
  ASSUME Live, UNCHANGED <<pool, conn, sockets, alive, result>>,
         phase' \in {"sleep", "poll", "dead"},
         phase' = "dead" => phase = "dead",
         phase' = "poll" => phase = "poll" \/ result = <<>>,
         ready' \subseteq Opened, event' \in EventType,
         Polling', Rounds',
         \A i \in DOMAIN result : Announced(i) => result[i].new \notin ready' \union {event'.id}
  PROVE  Live'
<1>1. PoolOK(pool)'
  BY DEF Live
<1>2. Types'
  BY DEF Live, Types, Watched, Opened, ResultType, EventType
<1>3. WritesInOrder' /\ ClosedIsHeard'
  BY DEF Live, WritesInOrder, ClosedIsHeard, Watched, Opened
<1>4. OwnerGetsAll'
  BY DEF Live, OwnerGetsAll, Owner, InTable, Kept, InResult, Opened
<1>5. NoOrphan'
  BY DEF Live, NoOrphan, Owner, Watched
<1>6. MainDiesOfReuse'
  BY DEF Live, MainDiesOfReuse, Owner, Watched, Opened
<1>7. Owners'
  BY DEF Live, Owners, Owner, Watched, Opened, Listening
<1>8. Fresh'
  BY DEF Live, Fresh, Unheard, Owner, Watched, Opened, Listening, Announced
<1>9. ReusedLater'
  <2>1. DOMAIN <<>> = {}
    OBVIOUS
  <2> QED BY <2>1 DEF Live, ReusedLater, Announced, Opened
<1> QED BY <1>1, <1>2, <1>3, <1>4, <1>5, <1>6, <1>7, <1>8, <1>9 DEF Live

-----------------------------------------------------------------------------
(* The steps of main that only move on in its round                        *)

\* A cell that lives has a pool with slots.
LEMMA CapPositive ==
  ASSUME Live
  PROVE  Cap(pool) # 0 /\ phase # "exited" /\ Rounds /\ Polling
BY DEF Live, PoolOK, PoolTypes, Types

\* No event is about no socket.
LEMMA NoEventIs ==
  /\ NoEvent.id = 0 /\ NoEvent.read = FALSE /\ NoEvent.write = FALSE
  /\ NoEvent \in EventType
BY DEF NoEvent, EventType

\* Poll keeps the invariant: epoll reports sockets that are open.
LEMMA PollKeeps == ASSUME Live, Poll PROVE Live'
<1>1. /\ phase = "sleep" /\ ready' = Watched /\ phase' = "poll"
      /\ UNCHANGED <<pool, conn, sockets, alive, result>> /\ event' = event
  BY DEF Poll
<1>2. event = NoEvent /\ result = <<>> /\ Cap(pool) # 0
  BY <1>1, CapPositive DEF Rounds
<1>3. Watched \subseteq Opened /\ DOMAIN result = {}
  BY <1>2, Typed
<1>4. Polling'
  BY <1>1, <1>2, NoEventIs DEF Polling, Watched
<1>5. Rounds'
  BY <1>1, <1>2, NoEventIs DEF Rounds
<1>6. event' \in EventType
  BY <1>1, <1>2, NoEventIs
<1> QED BY <1>1, <1>2, <1>3, <1>4, <1>5, <1>6, ControlOnly

\* Sleep keeps it: nothing is left to pass on.
LEMMA SleepKeeps == ASSUME Live, Sleep PROVE Live'
<1>1. /\ phase = "poll" /\ event = NoEvent /\ result = <<>> /\ phase' = "sleep" /\ ready' = {}
      /\ UNCHANGED <<pool, conn, sockets, alive, result>> /\ event' = event
  BY DEF Sleep, Polled
<1>2. Cap(pool) # 0 /\ DOMAIN result = {}
  BY <1>1, CapPositive
<1>3. Polling'
  BY <1>1, NoEventIs DEF Polling
<1>4. Rounds'
  BY <1>1, <1>2, NoEventIs DEF Rounds
<1>5. event' \in EventType
  BY <1>1, NoEventIs
<1> QED BY <1>1, <1>2, <1>3, <1>4, <1>5, ControlOnly

\* NextEvent keeps it: a socket that is still in ready has not been closed in this round,
\* and room to write is reported where there is something to write.
LEMMA NextEventKeeps == ASSUME Live, NextEvent PROVE Live'
<1>1. /\ phase = "poll" /\ event = NoEvent /\ phase' = phase
      /\ UNCHANGED <<pool, conn, sockets, alive, result>>
  BY DEF NextEvent
<1>11. PICK id \in ready :
         /\ ready' = ready \ {id}
         /\ \E read \in BOOLEAN, write \in {FALSE, pool.ev[id]} :
              (read \/ write) /\ event' = [id |-> id, read |-> read, write |-> write]
  BY DEF NextEvent
<1>12. PICK read \in BOOLEAN, write \in {FALSE, pool.ev[id]} :
         (read \/ write) /\ event' = [id |-> id, read |-> read, write |-> write]
  BY <1>11
<1>2. /\ id \in ready /\ read \in BOOLEAN /\ write \in {FALSE, pool.ev[id]}
      /\ ready' = ready \ {id} /\ (read \/ write)
      /\ event' = [id |-> id, read |-> read, write |-> write]
  BY <1>11, <1>12
<1>3. /\ Rounds /\ Polling /\ Cap(pool) # 0
  BY CapPositive
<1>4. /\ ready \subseteq Watched /\ Watched \subseteq Opened /\ Watched = DOMAIN pool.ev
      /\ PoolOK(pool)
  BY <1>3, Typed DEF Polling
<1>5. id \in Opened /\ id \in Watched /\ write \in BOOLEAN
      /\ (write => Slot(pool, id).wb # <<>>)
  <2>1. id \in DOMAIN pool.ev
    BY <1>2, <1>4
  <2>2. pool.ev[id] <=> Slot(pool, id).wb # <<>>
    BY <1>4, <2>1, SlotFound
  <2>3. pool.ev[id] \in BOOLEAN
    BY <1>4, <2>1 DEF PoolOK, PoolTypes
  <2> QED BY <1>2, <1>4, <2>1, <2>2, <2>3
<1>6. event'.id = id /\ event'.read = read /\ event'.write = write /\ event' \in EventType
  BY <1>2, <1>5 DEF EventType
<1>7. Polling'
  BY <1>1, <1>2, <1>4, <1>5, <1>6 DEF Polling, Watched
<1>8. Rounds'
  <2>1. event' = NoEvent \/ (event'.id \in Opened' \ ready' /\ (event'.read \/ event'.write))
    BY <1>1, <1>2, <1>5, <1>6 DEF Opened
  <2>2. event'.write /\ event'.id \in Watched' => Slot(pool', event'.id).wb # <<>>
    BY <1>1, <1>5, <1>6
  <2> QED BY <1>1, <1>3, <2>1, <2>2 DEF Rounds
<1>9. \A i \in DOMAIN result : Announced(i) => result[i].new \notin ready' \union {event'.id}
  <2>1. \A i \in DOMAIN result : Announced(i) => result[i].new \notin ready
    BY DEF Live, Fresh, Unheard
  <2> QED BY <1>2, <1>6, <2>1
<1>10. ready' \subseteq Opened
  BY <1>2, <1>4
<1> QED BY <1>1, <1>6, <1>7, <1>8, <1>9, <1>10, ControlOnly

\* Whatever is done with an event, what is left of it is about the same socket.
EventLess ==
  /\ event' \in EventType
  /\ event' = NoEvent \/ (event'.id = event.id /\ (event'.read \/ event'.write))
  /\ event'.read => event.read /\ event'.id = event.id
  /\ event'.write => event.write /\ event'.id = event.id
  /\ event'.id \in {0, event.id}

\* To be done with an event, or with its half for reading, leaves less of it.
LEMMA EventDone ==
  ASSUME Live, event # NoEvent, event' = event \/ event' = NoEvent \/ HasRead
  PROVE  EventLess
<1>1. /\ event.id \in Opened \union {0} /\ event.read \in BOOLEAN /\ event.write \in BOOLEAN
      /\ event = [id |-> event.id, read |-> event.read, write |-> event.write]
      /\ event.read \/ event.write
  BY Typed DEF Live, Rounds
<1> DEFINE left == [event EXCEPT !.read = FALSE]
<1>2. left = [id |-> event.id, read |-> FALSE, write |-> event.write]
  <2> DEFINE a == event.id
             b == event.read
             c == event.write
  <2>1. event = [id |-> a, read |-> b, write |-> c]
    BY <1>1
  <2> HIDE DEF a, b, c
  <2> DEFINE e == [id |-> a, read |-> b, write |-> c]
  <2>2. [e EXCEPT !.read = FALSE] = [id |-> a, read |-> FALSE, write |-> c]
    <3>1. ASSUME NEW v PROVE [e EXCEPT !.read = v] = [id |-> a, read |-> v, write |-> c]
      OBVIOUS
    <3> QED BY <3>1
  <2>3. left = [e EXCEPT !.read = FALSE]
    BY <2>1
  <2> QED BY <2>2, <2>3 DEF a, c
<1> HIDE DEF left
<1>3. CASE event' = event
  BY <1>1, <1>3 DEF EventLess, EventType
<1>4. CASE event' = NoEvent
  BY <1>4, NoEventIs DEF EventLess
<1>5. CASE event.write /\ event' = left
  BY <1>1, <1>2, <1>5 DEF EventLess, EventType
<1> QED BY <1>3, <1>4, <1>5 DEF HasRead, left

\* An event is handled while main polls, and is about a socket that is not among
\* those left to handle, nor accepted in this round.
LEMMA Handling ==
  ASSUME Live, NEW id \in Opened, Reading(id) \/ Writing(id)
  PROVE  /\ event # NoEvent /\ phase = "poll" /\ event.id = id /\ id \notin ready
         /\ event.read => id \in Watched
         /\ event.write /\ id \in Watched => Slot(pool, id).wb # <<>>
         /\ \A i \in DOMAIN result : Announced(i) => result[i].new # id
<1>1. event.id = id
  BY DEF Reading, Writing
<1>2. event # NoEvent
  BY <1>1, Typed, NoEventIs
<1>3. Rounds /\ Polling /\ Fresh
  BY DEF Live
<1> QED BY <1>1, <1>2, <1>3 DEF Rounds, Polling, Fresh, Unheard

\* With less of an event left, no socket but its own can be closed for ready to hold open
\* sockets only.
LEMMA EventStays ==
  ASSUME Live, EventLess, event # NoEvent, UNCHANGED <<ready, phase, result>>
  PROVE  /\ Opened \subseteq Opened' => event' \in EventType'
         /\ (Watched \ {event.id}) \subseteq Watched' /\ (event'.read => event.id \in Watched') => Polling'
         /\ \A i \in DOMAIN result : Announced(i) => result[i].new \notin ready' \union {event'.id}
<1>1. Polling /\ Rounds /\ Fresh
  BY DEF Live
<1>2. event.id \in Opened \ ready /\ 0 \notin Opened /\ ready \subseteq Watched
  BY <1>1, Typed DEF Rounds, Polling
<1>3. ASSUME Opened \subseteq Opened' PROVE event' \in EventType'
  BY <1>3 DEF EventLess, EventType
<1>4. ASSUME (Watched \ {event.id}) \subseteq Watched', event'.read => event.id \in Watched' PROVE Polling'
  BY <1>2, <1>4 DEF EventLess, Polling
<1>5. ASSUME NEW i \in DOMAIN result, Announced(i) PROVE result[i].new \notin ready' \union {event'.id}
  <2>1. result[i].new \in Opened /\ result[i].new \notin ready \union {event.id}
    BY <1>1, <1>5, Typed DEF Fresh, Unheard, Announced
  <2> QED BY <1>2, <2>1 DEF EventLess
<1> QED BY <1>3, <1>4, <1>5

\* A call that would block, or that comes after the socket was closed, keeps the invariant.
LEMMA IdleKeeps ==
  ASSUME Live, NEW id \in Opened, NoMore(id) \/ SendNothing(id)
  PROVE  Live'
<1>1. /\ Reading(id) \/ Writing(id)
      /\ event' = NoEvent \/ HasRead
      /\ UNCHANGED <<pool, conn, sockets, alive, result>> /\ phase' = phase /\ ready' = ready
  BY DEF NoMore, SendNothing
<1>2. event # NoEvent /\ phase = "poll" /\ event.id = id
  BY <1>1, Handling
<1>3. EventLess
  BY <1>1, <1>2, EventDone
<1>4. Watched' = Watched /\ Opened' = Opened
  BY <1>1 DEF Watched, Opened
<1>5. /\ event' \in EventType'
      /\ \A i \in DOMAIN result : Announced(i) => result[i].new \notin ready' \union {event'.id}
  BY <1>1, <1>2, <1>3, <1>4, EventStays
<1>6. Polling'
  <2>1. event'.read => event.id \in Watched
    BY <1>3, CapPositive DEF EventLess, Polling
  <2> QED BY <1>1, <1>2, <1>3, <1>4, <2>1, EventStays
<1>7. Rounds'
  <2>1. Rounds
    BY CapPositive
  <2> QED BY <1>1, <1>2, <1>3, <1>4, <2>1 DEF EventLess, Rounds
<1>8. ready' \subseteq Opened /\ event' \in EventType
  BY <1>1, <1>4, <1>5 DEF Live, Types, EventType
<1> QED BY <1>1, <1>2, <1>5, <1>6, <1>7, <1>8, Typed, ControlOnly

\* A cell may die at any step: nothing in the socket cell changes.
LEMMA DieKeeps ==
  ASSUME Live, NEW c \in Cell, Die(c)
  PROVE  Live'
<1>1. /\ alive' = alive \ {c} /\ c \in alive /\ alive \subseteq Cell
      /\ UNCHANGED <<pool, conn, sockets, phase, ready, event, result>>
  BY Typed DEF Die
<1>2. alive' # Cell /\ alive' \subseteq Cell
  BY <1>1
<1>3. PoolOK(pool)' /\ Polling' /\ Rounds' /\ ReusedLater'
  BY <1>1 DEF Live, Polling, Rounds, ReusedLater, Announced, Watched, Opened, Known
<1>4. Types'
  BY <1>1, <1>2 DEF Live, Types, Watched, Opened, ResultType, EventType
<1>5. WritesInOrder' /\ ClosedIsHeard'
  BY <1>1 DEF Live, WritesInOrder, ClosedIsHeard, Watched, Opened
<1>6. OwnerGetsAll'
  BY <1>1 DEF Live, OwnerGetsAll, Owner, InTable, Kept, InResult, Opened
<1>7. NoOrphan'
  BY <1>1, <1>2 DEF Live, NoOrphan, Owner, Watched
<1>8. MainDiesOfReuse'
  BY <1>1, <1>2 DEF Live, MainDiesOfReuse, Owner, Watched, Opened
<1>9. Owners'
  BY <1>1 DEF Live, Owners, Owner, Watched, Opened, Listening
<1>10. Fresh'
  BY <1>1, <1>2 DEF Live, Fresh, Unheard, Owner, Watched, Opened, Listening, Announced
<1> QED BY <1>3, <1>4, <1>5, <1>6, <1>7, <1>8, <1>9, <1>10 DEF Live

-----------------------------------------------------------------------------
(* The results                                                             *)

\* The results are results, whatever is open.
LEMMA ResultSeq ==
  ASSUME Live
  PROVE  result \in Seq(Entry(Nat \union {Nobody}))
<1>1. result \in Seq(ResultType) /\ Opened \subseteq Nat
  BY Typed
<1>2. ASSUME NEW r \in ResultType PROVE r \in Entry(Nat \union {Nobody})
  BY <1>1, ResultFields DEF Entry
<1> QED BY <1>1, <1>2, SeqMonotonic

\* What the results and the table have for a socket are bytes.
LEMMA InTypes ==
  ASSUME Live, NEW w
  PROVE  /\ InResult(w) = Gathered(result, w) /\ InResult(w) \in Seq(Byte) /\ InTable(w) \in Seq(Byte)
<1>1. InResult(w) = Gathered(result, w)
  BY DEF InResult, Gathered, Pieces
<1>2. InResult(w) \in Seq(Byte)
  BY <1>1, ResultSeq, GatheredType
<1>3. InTable(w) \in Seq(Byte)
  <2>1. CASE Kept(w)
    <3>1. sockets[w] \in Seq(Seq(Byte))
      BY <2>1, OwnerTypes DEF Table
    <3> QED BY <2>1, <3>1, FlattenType DEF InTable
  <2>2. CASE ~Kept(w)
    BY <2>2, EmptySeq DEF InTable
  <2> QED BY <2>1, <2>2
<1> QED BY <1>1, <1>2, <1>3

\* One more result.
ResultAdded(x) ==
  /\ result' \in Seq(ResultType')
  /\ DOMAIN result' = DOMAIN result \union {Len(result) + 1}
  /\ \A i \in DOMAIN result : result'[i] = result[i] /\ i < Len(result) + 1
  /\ result'[Len(result) + 1] = x
  /\ \A w : InResult(w)' = IF x.fd = w THEN InResult(w) \o x.bytes ELSE InResult(w)

\* A result is added at the end.
LEMMA ResultMore ==
  ASSUME Live, Opened \subseteq Opened', Opened' \subseteq Nat,
         NEW x, x \in ResultType', result' = Append(result, x)
  PROVE  ResultAdded(x)
<1> DEFINE R == ResultType'
           E == Entry(Nat \union {Nobody})
<1>1. result \in Seq(R)
  <2>1. ResultType \subseteq R
    BY DEF ResultType
  <2> QED BY <2>1, Typed, SeqMonotonic
<1>2. x \in E
  <2>1. <<>> \in Seq(Byte)
    BY EmptySeq
  <2>2. CASE x \in [fd : Opened', bytes : Seq(Byte), new : {Nobody}]
    BY <2>2 DEF Entry
  <2>3. CASE x \in [fd : Opened', bytes : {<<>>}, new : Opened']
    BY <2>1, <2>3 DEF Entry
  <2> QED BY <2>2, <2>3 DEF ResultType
<1>3. result \in Seq(E)
  BY ResultSeq
<1> HIDE DEF R, E
<1>4. /\ result' \in Seq(R) /\ Len(result') = Len(result) + 1
      /\ \A i \in 1 .. Len(result) : result'[i] = result[i]
      /\ result'[Len(result) + 1] = x
  BY <1>1, AppendProperties DEF R
<1>5. Len(result) \in Nat /\ DOMAIN result = 1 .. Len(result)
  BY Typed
<1>6. DOMAIN result' = 1 .. Len(result) + 1
  BY <1>4, LenProperties
<1>7. DOMAIN result' = DOMAIN result \union {Len(result) + 1}
  BY <1>5, <1>6
<1>8. \A i \in DOMAIN result : result'[i] = result[i] /\ i < Len(result) + 1
  BY <1>4, <1>5
<1>9. ASSUME NEW w PROVE InResult(w)' = IF x.fd = w THEN InResult(w) \o x.bytes ELSE InResult(w)
  <2>1. InResult(w)' = Gathered(result', w)
    BY DEF InResult, Gathered, Pieces
  <2>2. InResult(w) = Gathered(result, w)
    BY DEF InResult, Gathered, Pieces
  <2>3. Gathered(Append(result, x), w)
           = IF x.fd = w THEN Gathered(result, w) \o x.bytes ELSE Gathered(result, w)
    BY <1>2, <1>3, GatheredAppend DEF E
  <2> QED BY <2>1, <2>2, <2>3
<1> QED BY <1>4, <1>7, <1>8, <1>9 DEF ResultAdded, R

\* The first result is passed on.
ResultGone ==
  /\ result' \in Seq(ResultType)
  /\ 1 \in DOMAIN result /\ Head(result) = result[1] /\ result[1] \in ResultType
  /\ \A i \in DOMAIN result' : i + 1 \in DOMAIN result /\ result'[i] = result[i + 1] /\ i \in Nat
  /\ \A i \in DOMAIN result : i = 1 \/ (i - 1 \in DOMAIN result' /\ result'[i - 1] = result[i])
  /\ \A i \in DOMAIN result : i \in Nat
  /\ \A w : InResult(w) = IF Head(result).fd = w THEN Head(result).bytes \o InResult(w)'
                          ELSE InResult(w)'

\* The first result is passed on, the others move up.
LEMMA ResultLess ==
  ASSUME Live, result # <<>>, result' = Tail(result)
  PROVE  ResultGone
<1> DEFINE R == ResultType
           E == Entry(Nat \union {Nobody})
<1>1. result \in Seq(R) /\ Len(result) \in Nat /\ DOMAIN result = 1 .. Len(result)
  BY Typed
<1>2. result \in Seq(E)
  BY ResultSeq
<1> HIDE DEF R, E
<1>3. /\ result' \in Seq(R) /\ Len(result') = Len(result) - 1 /\ Head(result) \in R
      /\ \A i \in 1 .. Len(result') : result'[i] = result[i + 1]
  BY <1>1, HeadTailProperties
<1>4. Len(result) \in Nat \ {0} /\ Head(result) = result[1]
  BY <1>1, EmptySeq
<1>5. DOMAIN result' = 1 .. Len(result')
  BY <1>3, LenProperties
<1>6. 1 \in DOMAIN result
  BY <1>1, <1>4
<1>7. \A i \in DOMAIN result' : i + 1 \in DOMAIN result /\ result'[i] = result[i + 1] /\ i \in Nat
  BY <1>1, <1>3, <1>4, <1>5
<1>8. ASSUME NEW i \in DOMAIN result, i # 1
      PROVE  i - 1 \in DOMAIN result' /\ result'[i - 1] = result[i]
  <2>1. i - 1 \in 1 .. Len(result') /\ (i - 1) + 1 = i
    BY <1>1, <1>3, <1>4, <1>8
  <2>2. result'[i - 1] = result[(i - 1) + 1]
    BY <1>3, <2>1
  <2> QED BY <1>5, <2>1, <2>2
<1>9. ASSUME NEW w
      PROVE  InResult(w) = IF Head(result).fd = w THEN Head(result).bytes \o InResult(w)'
                           ELSE InResult(w)'
  <2>1. InResult(w)' = Gathered(result', w)
    BY DEF InResult, Gathered, Pieces
  <2>2. InResult(w) = Gathered(result, w)
    BY DEF InResult, Gathered, Pieces
  <2>3. Gathered(result, w)
          = IF Head(result).fd = w THEN Head(result).bytes \o Gathered(Tail(result), w)
            ELSE Gathered(Tail(result), w)
    BY <1>2, GatheredTail DEF E
  <2> QED BY <2>1, <2>2, <2>3
<1>10. \A i \in DOMAIN result : i \in Nat
  BY <1>1
<1> QED BY <1>3, <1>4, <1>6, <1>7, <1>8, <1>9, <1>10 DEF ResultGone, R

\* The bytes that a socket's owner has, and those on their way.
LEMMA Gets ==
  ASSUME Live, NEW w \in Opened, Owner(w) # Nobody, conn[w].left # "asked",
         NEW b \in Seq(Byte)
  PROVE  /\ conn[w].given \o InTable(w) \o (InResult(w) \o b) = conn[w].got \o b
<1> DEFINE g == conn[w].given
           t == InTable(w)
           r == InResult(w)
           a == conn[w].got
<1>1. g \in Seq(Byte) /\ t \in Seq(Byte) /\ r \in Seq(Byte) /\ a \in Seq(Byte)
  BY Typed, ConnFields, InTypes
<1>2. (g \o t) \o r = a
  BY DEF Live, OwnerGetsAll
<1>3. Associates(Byte)
  BY ConcatAssociates
<1> HIDE DEF g, t, r, a
<1>4. g \o t \in Seq(Byte)
  BY <1>1, ConcatProperties
<1>5. (g \o t) \o (r \o b) = ((g \o t) \o r) \o b
  <2> DEFINE u == g \o t
  <2>1. u \in Seq(Byte)
    BY <1>4
  <2> HIDE DEF u
  <2>2. (u \o r) \o b = u \o (r \o b)
    BY <1>1, <1>3, <2>1 DEF Associates
  <2> QED BY <2>2 DEF u
<1> QED BY <1>2, <1>5 DEF g, t, r, a

\* The bytes of a stream are bytes.
LEMMA BytesAre ==
  ASSUME NEW a \in Nat, NEW n \in Nat
  PROVE  From(a, n) \in Seq(Byte)
<1>1. Nat \subseteq Byte
  BY DEF Byte
<1> QED BY <1>1, FromType, SeqMonotonic

-----------------------------------------------------------------------------
(* What lpoll reads                                                        *)

\* One recv: bytes, or the end of the connection with which the socket is closed.
LEMMA ReadKeeps ==
  ASSUME Live, NEW id \in Opened, Reading(id),
         NEW bytes \in Seq(Byte), NEW x \in ConnType,
         x = Conn(conn[id].got \o bytes, conn[id].given, conn[id].out, conn[id].written,
                  conn[id].told, conn[id].left),
         conn' = [conn EXCEPT ![id] = x],
         \/ result' = result /\ Slot(pool, id).status = "halfclose"
         \/ result' = Append(result, Data(id, bytes)),
         OthersKept(pool, pool', id),
         \/ pool' = pool
         \/ /\ Watched' = Watched \ {id} /\ bytes = <<Eof>>
            /\ result' = Append(result, Data(id, bytes)) /\ ~event'.read,
         EventLess, UNCHANGED <<sockets, alive, phase, ready>>
  PROVE  Live'
<1>1. /\ event # NoEvent /\ phase = "poll" /\ event.id = id /\ id \notin ready
      /\ id \in Watched
      /\ \A i \in DOMAIN result : Announced(i) => result[i].new # id
  BY Handling DEF Reading
<1>2. /\ PoolOK(pool) /\ Watched = DOMAIN pool.ev /\ Watched \subseteq Opened
      /\ Opened \subseteq Nat \ {0} /\ Nobody \notin Opened /\ id \in Nat
      /\ conn[id] \in ConnType /\ Len(result) \in Nat /\ DOMAIN result = 1 .. Len(result)
  BY Typed
<1>3. /\ Opened' = Opened /\ conn' \in [Opened' -> ConnType]
      /\ conn'[id] = x /\ \A w \in Opened \ {id} : conn'[w] = conn[w]
  BY ConnSet
<1>4. /\ x.got = conn[id].got \o bytes /\ x.given = conn[id].given /\ x.out = conn[id].out
      /\ x.written = conn[id].written /\ x.told = conn[id].told /\ x.left = conn[id].left
  BY DEF Conn
<1>5. \A w \in Opened : /\ conn'[w].given = conn[w].given /\ conn'[w].out = conn[w].out
                        /\ conn'[w].written = conn[w].written
                        /\ conn'[w].told = conn[w].told /\ conn'[w].left = conn[w].left
                        /\ w # id => conn'[w].got = conn[w].got
  BY <1>3, <1>4
<1>6. /\ PoolOK(pool') /\ pool'.id = pool.id
      /\ \A w \in Nat : Slot(pool', w).id = Slot(pool, w).id
      /\ \A w \in Watched \ {id} : Slot(pool', w) = Slot(pool, w)
  BY <1>2 DEF OthersKept
<1>7. /\ Watched' \subseteq Watched /\ Watched \ {id} \subseteq Watched'
      /\ \A w \in Watched' : Slot(pool', w) = Slot(pool, w)
  <2>1. pool' = pool => Watched' = Watched
    BY DEF Watched
  <2> QED BY <1>6, <2>1
<1>8. id \in Watched' \/ bytes = <<Eof>>
  BY <1>1 DEF Watched
<1> DEFINE y == Data(id, bytes)
<1>9. y.fd = id /\ y.bytes = bytes /\ y.new = Nobody /\ y \in ResultType'
  BY <1>3 DEF Data, ResultType
<1>10. result' = result \/ ResultAdded(y)
  <2> HIDE DEF y
  <2>1. Opened \subseteq Opened' /\ Opened' \subseteq Nat
    BY <1>2, <1>3
  <2> QED BY <1>9, <2>1, ResultMore DEF y
<1>11. \A w : Owner(w)' = Owner(w) /\ Kept(w)' = Kept(w) /\ InTable(w)' = InTable(w)
  BY OwnerSame
<1>12. /\ Polling /\ Rounds /\ Owners /\ Fresh /\ ReusedLater /\ WritesInOrder
       /\ ClosedIsHeard /\ NoOrphan
  BY DEF Live
<1>13. \A i \in DOMAIN result : i \in DOMAIN result' /\ result'[i] = result[i]
  BY <1>10 DEF ResultAdded
<1>14. \A i \in DOMAIN result' : i \in DOMAIN result \/ result'[i] = y
  BY <1>10 DEF ResultAdded
<1> HIDE DEF y
<1>20. Types'
  <2>1. event' \in EventType'
    BY <1>1, <1>3 DEF EventLess, EventType
  <2>2. result' \in Seq(ResultType')
    <3>1. ResultType' = ResultType
      BY <1>3 DEF ResultType
    <3> QED BY <1>10, <3>1, Typed DEF ResultAdded
  <2>3. Watched' \subseteq Opened' /\ Opened' \subseteq 1 .. pool'.id - 1
    BY <1>2, <1>3, <1>6, <1>7 DEF Live, Types
  <2> QED BY <1>3, <2>1, <2>2, <2>3 DEF Live, Types
<1>21. Polling'
  <2>1. ready' \subseteq Watched'
    BY <1>1, <1>7, <1>12 DEF Polling
  <2>2. event'.read => event'.id \in Watched'
    BY <1>1, <1>2 DEF EventLess, Watched
  <2> QED BY <2>1, <2>2 DEF Polling
<1>22. WritesInOrder'
  <2>1. ASSUME NEW w \in Opened
        PROVE  /\ conn'[w].out = Upto(Len(conn'[w].out))
               /\ w \in Watched' =>
                    conn'[w].out \o FlattenSeq(Slot(pool', w).wb) = Upto(conn'[w].written)
    <3>1. conn'[w].out = conn[w].out /\ conn'[w].written = conn[w].written
      BY <1>5
    <3>2. w \in Watched' => w \in Watched /\ Slot(pool', w) = Slot(pool, w)
      BY <1>7
    <3> QED BY <1>12, <3>1, <3>2 DEF WritesInOrder
  <2> QED BY <1>3, <2>1 DEF WritesInOrder
<1>23. OwnerGetsAll'
  <2>1. ASSUME NEW w \in Opened, Owner(w)' # Nobody, conn'[w].left # "asked"
        PROVE  conn'[w].given \o InTable(w)' \o InResult(w)' = conn'[w].got
    <3>1. Owner(w) # Nobody /\ conn[w].left # "asked"
      BY <1>5, <1>11, <2>1
    <3>2. conn[w].given \o InTable(w) \o InResult(w) = conn[w].got
      BY <3>1 DEF Live, OwnerGetsAll
    <3>3. CASE w # id
      <4>1. InResult(w)' = InResult(w)
        BY <1>9, <1>10, <3>3, ResultSame DEF ResultAdded
      <4> QED BY <1>5, <1>11, <3>2, <3>3, <4>1
    <3>4. CASE w = id
      <4>1. Slot(pool, id).status # "halfclose"
        BY <1>1, <1>12, <3>1, <3>4 DEF Owners
      <4>2. ResultAdded(y)
        <5>1. result' = Append(result, Data(id, bytes))
          BY <4>1
        <5>2. Opened \subseteq Opened' /\ Opened' \subseteq Nat
          BY <1>2, <1>3
        <5> QED BY <1>9, <5>1, <5>2, ResultMore DEF y
      <4>3. InResult(w)' = InResult(w) \o bytes
        BY <1>9, <3>4, <4>2 DEF ResultAdded
      <4>4. conn[w].given \o InTable(w) \o (InResult(w) \o bytes) = conn[w].got \o bytes
        BY <3>1, Gets
      <4> QED BY <1>3, <1>4, <1>5, <1>11, <3>4, <4>3, <4>4
    <3> QED BY <3>3, <3>4
  <2> QED BY <1>3, <2>1 DEF OwnerGetsAll
<1>24. ClosedIsHeard'
  <2>1. ASSUME NEW w \in Opened' \ Watched', conn'[w].left = "no"
        PROVE  conn'[w].got # <<>> /\ Last(conn'[w].got) = Eof
    <3>1. CASE w # id
      <4>1. w \in Opened \ Watched /\ conn[w].left = "no" /\ conn'[w].got = conn[w].got
        BY <1>3, <1>5, <1>7, <2>1, <3>1
      <4> QED BY <1>12, <4>1 DEF ClosedIsHeard
    <3>2. CASE w = id
      <4>1. bytes = <<Eof>>
        BY <1>8, <2>1, <3>2
      <4> DEFINE g == conn[id].got
      <4>2. g \in Seq(Byte) /\ Eof \in Byte
        BY <1>2, ConnFields DEF Byte
      <4>3. conn'[id].got = Append(g, Eof)
        <5> HIDE DEF g
        <5>1. Append(g, Eof) = g \o <<Eof>>
          BY <4>2, AppendIsConcat
        <5> QED BY <1>3, <1>4, <4>1, <5>1 DEF g
      <4> HIDE DEF g
      <4>4. /\ Append(g, Eof) # <<>> /\ Len(Append(g, Eof)) = Len(g) + 1
            /\ Append(g, Eof)[Len(g) + 1] = Eof
        BY <4>2, AppendProperties
      <4> QED BY <3>2, <4>3, <4>4 DEF Last
    <3> QED BY <3>1, <3>2
  <2> QED BY <2>1 DEF ClosedIsHeard
<1>25. NoOrphan'
  <2>1. ASSUME NEW w \in Watched', NEW i \in DOMAIN result, result[i].new = w
        PROVE  \E j \in DOMAIN result' : result'[j].new = w
    BY <1>13, <2>1
  <2> QED BY <1>2, <1>5, <1>7, <1>11, <1>12, <2>1 DEF NoOrphan
<1>26. MainDiesOfReuse'
  BY <1>1 DEF MainDiesOfReuse
<1>27. Rounds'
  <2>1. Cap(pool') # 0
    BY <1>6 DEF PoolOK, PoolTypes
  <2>2. event' = NoEvent \/ (event'.id \in Opened' \ ready' /\ (event'.read \/ event'.write))
    BY <1>1, <1>3 DEF EventLess
  <2>3. event'.write /\ event'.id \in Watched' => Slot(pool', event'.id).wb # <<>>
    BY <1>7, <1>12 DEF EventLess, Rounds
  <2> QED BY <1>1, <2>1, <2>2, <2>3 DEF Rounds
<1>28. Owners'
  BY <1>2, <1>3, <1>5, <1>7, <1>11, <1>12 DEF Owners, Listening
<1>29. Fresh'
  <2> SUFFICES ASSUME NEW i \in DOMAIN result', Announced(i)'
               PROVE  Unheard(i, result[i].new)'
    BY DEF Fresh
  <2>1. i \in DOMAIN result /\ result'[i] = result[i] /\ Announced(i)
    BY <1>9, <1>13, <1>14 DEF Announced
  <2>2. PICK n, m : n = result[i].new /\ m = result[i].fd
    OBVIOUS
  <2>3. Unheard(i, n)
    BY <1>12, <2>1, <2>2 DEF Fresh
  <2>4. n # id /\ n # Nobody /\ n \in Opened /\ n # 0
    <3>1. n # Nobody /\ n \in Opened \union {Nobody}
      BY <2>1, <2>2, Typed DEF Announced
    <3> QED BY <1>1, <1>2, <2>1, <2>2, <3>1
  <2>5. \A j \in DOMAIN result' : result'[j].fd # n /\ (result'[j].new = n => j = i)
    BY <1>9, <1>13, <1>14, <2>3, <2>4 DEF Unheard
  <2>6. n \notin ready' \union {event'.id}
    BY <2>3, <2>4 DEF EventLess, Unheard
  <2>7. conn'[n] = NewConn("no") /\ n \notin DOMAIN sockets' /\ n \in Watched' /\ ~Slot(pool', n).listen
    BY <1>3, <1>7, <2>3, <2>4 DEF Unheard, Listening
  <2>8. Owner(m)' # Nobody \/ alive' # Cell
    <3>1. Owner(m) # Nobody \/ alive # Cell
      BY <2>2, <2>3 DEF Unheard
    <3> QED BY <1>11, <3>1
  <2>9. n = result'[i].new /\ m = result'[i].fd
    BY <2>1, <2>2
  <2>10. Unheard(i, n)'
    BY <2>5, <2>6, <2>7, <2>8, <2>9 DEF Unheard, Listening
  <2> QED BY <2>9, <2>10
<1>30. ReusedLater'
  <2>1. ASSUME NEW i \in DOMAIN result'
        PROVE  \/ result'[i].new # Nobody
               \/ Slot(pool', result'[i].fd).id = result'[i].fd
               \/ \E j \in DOMAIN result' :
                    j > i /\ result'[j].new \in Opened /\ result'[j].new > result'[i].fd
    <3>1. CASE result'[i] = y
      <4>1. Slot(pool, id).id = id
        BY <1>1, <1>2, SlotFound
      <4> QED BY <1>2, <1>6, <1>9, <3>1, <4>1
    <3>2. CASE i \in DOMAIN result
      <4>1. \/ result[i].new # Nobody
            \/ Slot(pool, result[i].fd).id = result[i].fd
            \/ \E j \in DOMAIN result :
                 j > i /\ result[j].new \in Opened /\ result[j].new > result[i].fd
        BY <1>1, <1>12, <3>2 DEF ReusedLater, Announced
      <4>2. result[i].fd \in Nat
        BY <1>2, <3>2, Typed
      <4> QED BY <1>6, <1>13, <3>2, <4>1, <4>2
    <3> QED BY <1>14, <3>1, <3>2
  <2> QED BY <1>3, <2>1 DEF ReusedLater, Announced
<1> QED BY <1>6, <1>20, <1>21, <1>22, <1>23, <1>24, <1>25, <1>26, <1>27, <1>28, <1>29, <1>30 DEF Live

\* Recv keeps the invariant: what is read is in the results, unless the socket is half-closed,
\* and then its owner has asked for that.
LEMMA RecvKeeps ==
  ASSUME Live, NEW id \in Opened, NEW r \in 1 .. READ_BUFFER, Recv(id, r)
  PROVE  Live'
<1> DEFINE c == conn[id]
           bytes == From(Len(c.got), r)
           x == Conn(c.got \o bytes, c.given, c.out, c.written, c.told, c.left)
<1>1. /\ Reading(id) /\ pool' = pool
      /\ conn' = [conn EXCEPT ![id].got = @ \o bytes]
      /\ result' = IF Slot(pool, id).status = "halfclose" THEN result
                   ELSE Append(result, Data(id, bytes))
      /\ event' = event \/ HasRead
      /\ UNCHANGED <<sockets, alive, phase, ready>>
  BY DEF Recv, From
<1>2. c \in ConnType
  BY Typed
<1>3. /\ c = Conn(c.got, c.given, c.out, c.written, c.told, c.left)
      /\ c.got \in Seq(Byte) /\ c.given \in Seq(Byte) /\ c.out \in Seq(Nat)
      /\ c.written \in Nat /\ c.told \in {"no", "yes", "forward"}
      /\ c.left \in {"no", "asked", "failed", "orphan"}
  BY <1>2, ConnFields
<1>4. bytes \in Seq(Byte)
  <2>1. Len(c.got) \in Nat /\ r \in Nat
    BY <1>3, LenProperties, SocketAssumption
  <2> QED BY <2>1, BytesAre
<1>5. x \in ConnType
  <2>1. c.got \o bytes \in Seq(Byte)
    <3> HIDE DEF bytes, c
    <3> QED BY <1>3, <1>4, ConcatProperties
  <2> HIDE DEF c, bytes
  <2> QED BY <1>3, <2>1 DEF Conn, ConnType
<1>6. conn' = [conn EXCEPT ![id] = x]
  <2>1. [c EXCEPT !.got = c.got \o bytes] = x
    <3> HIDE DEF c, bytes
    <3> QED BY <1>2, ConnChanges
  <2> HIDE DEF x
  <2> QED BY <1>1, <2>1
<1>7. OthersKept(pool, pool', id)
  BY <1>1, Typed, Reflexive
<1>8. EventLess
  BY <1>1, Handling, EventDone
<1>9. \/ result' = result /\ Slot(pool, id).status = "halfclose"
      \/ result' = Append(result, Data(id, bytes))
  BY <1>1
<1> HIDE DEF bytes, c, x
<1> QED BY <1>1, <1>4, <1>5, <1>6, <1>7, <1>8, <1>9, ReadKeeps DEF x, c

\* RecvEof keeps it: the socket is closed, and the end is in the results.
LEMMA RecvEofKeeps ==
  ASSUME Live, NEW id \in Opened, RecvEof(id)
  PROVE  Live'
<1> DEFINE c == conn[id]
           bytes == <<Eof>>
           x == Conn(c.got \o bytes, c.given, c.out, c.written, c.told, c.left)
<1>1. /\ Reading(id) /\ pool' = force_close(pool, id)
      /\ conn' = [conn EXCEPT ![id].got = Append(@, Eof)]
      /\ result' = Append(result, Data(id, <<Eof>>))
      /\ HasRead
      /\ UNCHANGED <<sockets, alive, phase, ready>>
  BY DEF RecvEof
<1>2. c \in ConnType
  BY Typed
<1>3. /\ c = Conn(c.got, c.given, c.out, c.written, c.told, c.left)
      /\ c.got \in Seq(Byte) /\ c.given \in Seq(Byte) /\ c.out \in Seq(Nat)
      /\ c.written \in Nat /\ c.told \in {"no", "yes", "forward"}
      /\ c.left \in {"no", "asked", "failed", "orphan"}
  BY <1>2, ConnFields
<1>4. bytes \in Seq(Byte) /\ Append(c.got, Eof) = c.got \o bytes /\ c.got \o bytes \in Seq(Byte)
  <2>1. Eof \in Byte
    BY DEF Byte
  <2>2. bytes \in Seq(Byte)
    BY <2>1
  <2> HIDE DEF c
  <2>3. Append(c.got, Eof) = c.got \o bytes
    BY <1>3, <2>1, AppendIsConcat
  <2>4. c.got \o bytes \in Seq(Byte)
    BY <1>3, <2>2, ConcatProperties
  <2> QED BY <2>2, <2>3, <2>4
<1>5. x \in ConnType
  <2> HIDE DEF c, bytes
  <2> QED BY <1>3, <1>4 DEF Conn, ConnType
<1>6. conn' = [conn EXCEPT ![id] = x]
  <2>1. [c EXCEPT !.got = Append(c.got, Eof)] = x
    <3> DEFINE b == Append(c.got, Eof)
    <3>1. x = Conn(b, c.given, c.out, c.written, c.told, c.left)
      BY <1>4
    <3> HIDE DEF c, bytes, x, b
    <3>2. [c EXCEPT !.got = b] = Conn(b, c.given, c.out, c.written, c.told, c.left)
      BY <1>2, ConnChanges
    <3> QED BY <3>1, <3>2 DEF b
  <2> HIDE DEF x
  <2> QED BY <1>1, <2>1
<1>7. id \in Watched /\ event # NoEvent /\ PoolOK(pool) /\ Watched = DOMAIN pool.ev
  BY <1>1, Handling, Typed DEF Reading
<1>8. OthersKept(pool, pool', id) /\ Watched' = Watched \ {id}
  BY <1>1, <1>7, ForceCloseOf DEF Watched
<1>9. EventLess
  BY <1>1, <1>7, EventDone
<1>10. ~event'.read
  <2>1. event' = NoEvent \/ event' = [event EXCEPT !.read = FALSE]
    BY <1>1 DEF HasRead
  <2>2. event = [id |-> event.id, read |-> event.read, write |-> event.write]
    BY Typed
  <2>3. [event EXCEPT !.read = FALSE].read = FALSE
    BY <2>2
  <2> QED BY <2>1, <2>3, NoEventIs
<1>11. result' = Append(result, Data(id, bytes))
  BY <1>1
<1> HIDE DEF x
<1> QED BY <1>1, <1>4, <1>5, <1>6, <1>8, <1>9, <1>10, <1>11, ReadKeeps DEF x

-----------------------------------------------------------------------------
(* What lpoll accepts                                                      *)

\* p is the pool with a new socket n.
Opens(p, n, listen) ==
  /\ PoolOK(p) /\ n \in Nat \ {0} /\ n \notin Opened /\ n # Nobody
  /\ \A w \in Opened : w < n
  /\ Opened \union {n} \subseteq 1 .. p.id - 1
  /\ DOMAIN p.ev = Watched \union {n}
  /\ Slot(p, n).id = n /\ Slot(p, n).status = "suspend"
  /\ Slot(p, n).listen = listen /\ Slot(p, n).wb = <<>>
  /\ \A w \in Watched : Slot(p, w) = Slot(pool, w)

\* new_socket opens a socket under an id that was never used, in a slot that was free.
LEMMA NewPool ==
  ASSUME Live, NEW listen \in BOOLEAN
  PROVE  Opens(new_socket(pool, listen), NextId(pool), listen)
<1> DEFINE p == new_socket(pool, listen)
           n == NextId(pool)
           slot == [id |-> n, status |-> "suspend", listen |-> listen, wb |-> <<>>]
<1>1. PoolOK(pool) /\ pool.id \in Nat \ {0} /\ Watched = DOMAIN pool.ev /\ Opened \subseteq Nat \ {0}
  BY Typed
<1>2. /\ PoolOK(p) /\ p.id = n + 1 /\ n \in Nat /\ n >= pool.id
      /\ DOMAIN p.ev = DOMAIN pool.ev \union {n}
      /\ Slot(p, n) = slot
      /\ \A w \in DOMAIN pool.ev : Slot(p, w) = Slot(pool, w)
  BY <1>1, NewSocketOf
<1>3. Opened \subseteq 1 .. pool.id - 1
  BY DEF Live, Types
<1>4. Slot(p, n).id = n /\ Slot(p, n).status = "suspend" /\ Slot(p, n).listen = listen /\ Slot(p, n).wb = <<>>
  <2>1. slot.id = n /\ slot.status = "suspend" /\ slot.listen = listen /\ slot.wb = <<>>
    <3> HIDE DEF n
    <3> QED OBVIOUS
  <2> HIDE DEF slot, n, p
  <2> QED BY <1>2, <2>1
<1> HIDE DEF p, n, slot
<1>5. \A w \in Opened : w < n
  <2> SUFFICES ASSUME NEW w \in Opened PROVE w < n
    OBVIOUS
  <2>1. w \in 1 .. pool.id - 1
    BY <1>3
  <2> QED BY <1>1, <1>2, <2>1
<1>6. n \notin Opened /\ n \in Nat \ {0}
  BY <1>1, <1>2, <1>5
<1>7. n # Nobody
  BY <1>2, ValueAssumption
<1>8. Opened \union {n} \subseteq 1 .. p.id - 1
  <2> SUFFICES ASSUME NEW w \in Opened \union {n} PROVE w \in 1 .. p.id - 1
    OBVIOUS
  <2>1. w \in Nat \ {0} /\ (w < n \/ w = n)
    BY <1>1, <1>5, <1>6
  <2> QED BY <1>2, <2>1
<1>9. Opens(p, n, listen)
  BY <1>1, <1>2, <1>4, <1>5, <1>6, <1>7, <1>8 DEF Opens
<1> QED BY <1>9 DEF p, n

\* Accept keeps the invariant: the listener has an owner, and the connection, which epoll has
\* not reported, waits in the results to be announced.
LEMMA AcceptKeeps ==
  ASSUME Live, NEW id \in Opened, Accept(id)
  PROVE  Live'
<1>1. PICK n : n = NextId(pool)
  OBVIOUS
<1> DEFINE x == NewConn("no")
           y == Accepted(id, n)
<1>2. /\ Reading(id) /\ Listening(id)
      /\ pool' = new_socket(pool, FALSE)
      /\ conn' = With(conn, n, x)
      /\ result' = Append(result, y)
      /\ UNCHANGED <<sockets, alive, phase, ready, event>>
  BY <1>1 DEF Accept
<1>3. Opens(pool', n, FALSE)
  BY <1>1, <1>2, NewPool
<1>4. /\ PoolOK(pool') /\ n \in Nat \ {0} /\ n \notin Opened /\ n # Nobody
      /\ \A w \in Opened : w < n
      /\ Opened \union {n} \subseteq 1 .. pool'.id - 1
      /\ Watched' = Watched \union {n}
      /\ Slot(pool', n).listen = FALSE /\ Slot(pool', n).wb = <<>>
      /\ Slot(pool', n).status = "suspend"
      /\ \A w \in Watched : Slot(pool', w) = Slot(pool, w)
  BY <1>3 DEF Opens, Watched
<1>5. /\ x \in ConnType /\ x.got = <<>> /\ x.given = <<>> /\ x.out = <<>> /\ x.written = 0
      /\ x.told = "no" /\ x.left = "no"
  BY NewConnOf
<1>6. /\ Opened' = Opened \union {n} /\ conn' \in [Opened' -> ConnType]
      /\ conn'[n] = x /\ \A w \in Opened : conn'[w] = conn[w]
  <2> HIDE DEF x
  <2> QED BY <1>2, <1>4, <1>5, ConnAdded
<1>7. /\ event # NoEvent /\ phase = "poll" /\ event.id = id /\ id \notin ready
      /\ id \in Watched
      /\ \A i \in DOMAIN result : Announced(i) => result[i].new # id
  BY <1>2, Handling DEF Reading
<1>8. /\ PoolOK(pool) /\ Watched = DOMAIN pool.ev /\ Watched \subseteq Opened
      /\ Opened \subseteq Nat \ {0} /\ Nobody \notin Opened /\ id \in Nat
      /\ Len(result) \in Nat /\ DOMAIN result = 1 .. Len(result)
      /\ DOMAIN sockets \subseteq Opened
      /\ \A i \in DOMAIN result : result[i].fd \in Opened /\ result[i].new \in Opened \union {Nobody}
  BY Typed, OwnerTypes
<1>9. y.fd = id /\ y.bytes = <<>> /\ y.new = n /\ y \in ResultType'
  <2>1. <<>> \in Seq(Byte)
    BY EmptySeq
  <2> QED BY <1>6, <2>1 DEF Accepted, ResultType
<1>10. ResultAdded(y)
  <2>1. Opened \subseteq Opened' /\ Opened' \subseteq Nat
    BY <1>4, <1>6, <1>8
  <2> HIDE DEF y
  <2> QED BY <1>2, <1>9, <2>1, ResultMore
<1>11. \A w : Owner(w)' = Owner(w) /\ Kept(w)' = Kept(w) /\ InTable(w)' = InTable(w)
  BY <1>2, OwnerSame
<1>12. /\ Polling /\ Rounds /\ Owners /\ Fresh /\ ReusedLater /\ WritesInOrder
       /\ OwnerGetsAll /\ ClosedIsHeard /\ NoOrphan /\ Types
  BY DEF Live
<1> DEFINE k == Len(result) + 1
<1>13. /\ \A i \in DOMAIN result : i \in DOMAIN result' /\ result'[i] = result[i] /\ i < k
       /\ \A i \in DOMAIN result' : i \in DOMAIN result \/ i = k
       /\ k \in DOMAIN result' /\ result'[k] = y /\ k \notin DOMAIN result
       /\ \A w : InResult(w)' = IF id = w THEN InResult(w) \o <<>> ELSE InResult(w)
  <2> HIDE DEF y
  <2>1. k \notin DOMAIN result
    BY <1>8
  <2> QED BY <1>9, <1>10, <2>1 DEF ResultAdded
<1> HIDE DEF y, x, k
<1>14. \A w : InResult(w)' = InResult(w)
  <2>1. \A w : InResult(w) \in Seq(Byte)
    BY InTypes
  <2>2. \A w : InResult(w) \o <<>> = InResult(w)
    BY <2>1, ConcatEmptySeq
  <2> QED BY <1>13, <2>2
<1>15. Owner(n) = Nobody
  BY <1>4, <1>8 DEF Owner
<1>20. Types'
  <2>1. event' \in EventType'
    BY <1>2, <1>6, <1>12 DEF Types, EventType
  <2>2. result' \in Seq(ResultType')
    BY <1>10 DEF ResultAdded
  <2>3. Watched' \subseteq Opened' /\ Opened' \subseteq 1 .. pool'.id - 1
    BY <1>4, <1>6, <1>8
  <2>4. ready' \subseteq Opened' /\ DOMAIN sockets' \subseteq Opened'
    BY <1>2, <1>6, <1>12 DEF Types
  <2> QED BY <1>2, <1>6, <1>12, <2>1, <2>2, <2>3, <2>4 DEF Types
<1>21. Polling'
  BY <1>2, <1>4, <1>12 DEF Polling
<1>22. WritesInOrder'
  <2>1. ASSUME NEW w \in Opened
        PROVE  /\ conn'[w].out = Upto(Len(conn'[w].out))
               /\ w \in Watched' =>
                    conn'[w].out \o FlattenSeq(Slot(pool', w).wb) = Upto(conn'[w].written)
    <3>1. conn'[w] = conn[w]
      BY <1>6
    <3>2. w \in Watched' => w \in Watched /\ Slot(pool', w) = Slot(pool, w)
      BY <1>4
    <3> QED BY <1>12, <3>1, <3>2 DEF WritesInOrder
  <2>2. /\ conn'[n].out = Upto(Len(conn'[n].out))
        /\ conn'[n].out \o FlattenSeq(Slot(pool', n).wb) = Upto(conn'[n].written)
    BY <1>4, <1>5, <1>6, NothingWritten
  <2> QED BY <1>6, <2>1, <2>2 DEF WritesInOrder
<1>23. OwnerGetsAll'
  <2>1. ASSUME NEW w \in Opened', Owner(w)' # Nobody, conn'[w].left # "asked"
        PROVE  conn'[w].given \o InTable(w)' \o InResult(w)' = conn'[w].got
    <3>1. w \in Opened /\ Owner(w) # Nobody
      BY <1>6, <1>11, <1>15, <2>1
    <3>2. conn'[w] = conn[w]
      BY <1>6, <3>1
    <3>3. conn[w].given \o InTable(w) \o InResult(w) = conn[w].got
      BY <1>12, <2>1, <3>1, <3>2 DEF OwnerGetsAll
    <3> QED BY <1>11, <1>14, <3>2, <3>3
  <2> QED BY <2>1 DEF OwnerGetsAll
<1>24. ClosedIsHeard'
  <2>1. Opened' \ Watched' \subseteq Opened \ Watched
    BY <1>4, <1>6
  <2> QED BY <1>6, <1>12, <2>1 DEF ClosedIsHeard
<1>25. NoOrphan'
  <2>1. ASSUME NEW w \in Watched
        PROVE  \/ Owner(w)' # Nobody
               \/ Slot(pool', w).status = "halfclose"
               \/ \E i \in DOMAIN result' : result'[i].new = w
               \/ conn'[w].left = "orphan" /\ alive' # Cell
    <3>1. \A i \in DOMAIN result : result[i].new = w => \E j \in DOMAIN result' : result'[j].new = w
      BY <1>13
    <3> QED BY <1>2, <1>4, <1>6, <1>8, <1>11, <1>12, <3>1 DEF NoOrphan
  <2>2. \E i \in DOMAIN result' : result'[i].new = n
    BY <1>9, <1>13
  <2> QED BY <1>4, <2>1, <2>2 DEF NoOrphan
<1>26. MainDiesOfReuse'
  BY <1>2, <1>7 DEF MainDiesOfReuse
<1>27. Rounds'
  <2>1. Cap(pool') # 0
    BY <1>4 DEF PoolOK, PoolTypes
  <2>2. event' = NoEvent \/ (event'.id \in Opened' \ ready' /\ (event'.read \/ event'.write))
    BY <1>2, <1>6, <1>12 DEF Rounds
  <2>3. event'.write /\ event'.id \in Watched' => Slot(pool', event'.id).wb # <<>>
    BY <1>2, <1>4, <1>7, <1>12 DEF Rounds
  <2> QED BY <1>2, <1>7, <2>1, <2>2, <2>3 DEF Rounds
<1>28. Owners'
  <2>1. ASSUME NEW w \in Opened
        PROVE  /\ Owner(w)' \in Cell => conn'[w].told = "yes"
               /\ conn'[w].told = "forward" =>
                    w \in DOMAIN sockets' /\ (Owner(w)' = Nobody => conn'[w].left = "asked")
               /\ w \in Watched' =>
                    /\ Slot(pool', w).status = "halfclose" => conn'[w].left = "asked"
                    /\ Slot(pool', w).listen => Slot(pool', w).wb = <<>>
    <3>1. conn'[w] = conn[w] /\ Owner(w)' = Owner(w) /\ sockets' = sockets
      BY <1>2, <1>6, <1>11
    <3>2. w \in Watched' => w \in Watched /\ Slot(pool', w) = Slot(pool, w)
      BY <1>4
    <3> QED BY <1>12, <3>1, <3>2 DEF Owners, Listening
  <2>2. Owner(n)' \notin Cell
    BY <1>11, <1>15, OwnerTypes
  <2> QED BY <1>4, <1>5, <1>6, <2>1, <2>2 DEF Owners, Listening
<1>29. Fresh'
  <2> SUFFICES ASSUME NEW i \in DOMAIN result', Announced(i)'
               PROVE  Unheard(i, result[i].new)'
    BY DEF Fresh
  <2>1. CASE i \in DOMAIN result
    <3>1. PICK v, m : v = result[i].new /\ m = result[i].fd
      OBVIOUS
    <3>2. v = result'[i].new /\ m = result'[i].fd /\ Announced(i)
      BY <1>13, <2>1, <3>1 DEF Announced
    <3>3. Unheard(i, v)
      BY <1>12, <2>1, <3>1, <3>2 DEF Fresh
    <3>4. v # id /\ v # Nobody /\ v \in Opened /\ v # n
      <4>1. v # Nobody /\ v \in Opened \union {Nobody}
        BY <1>8, <2>1, <3>1, <3>2 DEF Announced
      <4> QED BY <1>4, <1>7, <2>1, <3>1, <3>2, <4>1
    <3>5. \A j \in DOMAIN result' : result'[j].fd # v /\ (result'[j].new = v => j = i)
      BY <1>9, <1>13, <3>3, <3>4 DEF Unheard
    <3>6. /\ conn'[v] = NewConn("no") /\ v \notin DOMAIN sockets' /\ v \in Watched'
          /\ ~Slot(pool', v).listen /\ v \notin ready' \union {event'.id}
      BY <1>2, <1>4, <1>6, <3>3, <3>4 DEF Unheard, Listening
    <3>7. Owner(m)' # Nobody \/ alive' # Cell
      <4>1. Owner(m) # Nobody \/ alive # Cell
        BY <3>1, <3>3 DEF Unheard
      <4> QED BY <1>2, <1>11, <4>1
    <3>8. Unheard(i, v)'
      BY <3>2, <3>5, <3>6, <3>7 DEF Unheard, Listening
    <3> QED BY <3>2, <3>8
  <2>2. CASE i = k
    <3>1. result'[i].new = n /\ result'[i].fd = id
      BY <1>9, <1>13, <2>2
    <3>2. \A j \in DOMAIN result' : result'[j].fd # n /\ (result'[j].new = n => j = i)
      BY <1>4, <1>8, <1>9, <1>13, <2>2
    <3>3. Owner(id)' # Nobody \/ alive' # Cell
      <4>1. Slot(pool, id).wb = <<>>
        BY <1>2, <1>7, <1>12 DEF Owners
      <4>2. Slot(pool, id).status # "halfclose"
        BY <1>7, <1>8, <4>1, SlotFound
      <4>3. \A j \in DOMAIN result : result[j].new # id
        BY <1>7, <1>8 DEF Announced
      <4>4. Owner(id) # Nobody \/ alive # Cell
        BY <1>7, <1>12, <4>2, <4>3 DEF NoOrphan
      <4> QED BY <1>2, <1>11, <4>4
    <3>4. n \notin DOMAIN sockets' /\ n \notin ready' \union {event'.id}
      BY <1>2, <1>4, <1>7, <1>8, <1>12 DEF Types
    <3>5. conn'[n] = NewConn("no") /\ n \in Watched' /\ ~Slot(pool', n).listen
      BY <1>4, <1>6 DEF x
    <3>6. Unheard(i, n)'
      BY <3>1, <3>2, <3>3, <3>4, <3>5 DEF Unheard, Listening
    <3> QED BY <3>1, <3>6
  <2> QED BY <1>13, <2>1, <2>2
<1>30. ReusedLater'
  <2>1. ASSUME NEW i \in DOMAIN result'
        PROVE  \/ result'[i].new # Nobody
               \/ \E j \in DOMAIN result' :
                    j > i /\ result'[j].new \in Opened' /\ result'[j].new > result'[i].fd
    <3>1. CASE i = k
      BY <1>4, <1>9, <1>13, <3>1
    <3>2. CASE i \in DOMAIN result
      <4>1. result'[i].fd \in Opened /\ i < k /\ i \in Nat /\ k \in Nat
        BY <1>8, <1>13, <3>2 DEF k
      <4>2. k > i /\ n > result'[i].fd
        BY <1>4, <1>8, <4>1
      <4> QED BY <1>6, <1>9, <1>13, <4>2
    <3> QED BY <1>13, <3>1, <3>2
  <2> QED BY <2>1 DEF ReusedLater, Announced
<1> QED BY <1>4, <1>20, <1>21, <1>22, <1>23, <1>24, <1>25, <1>26, <1>27, <1>28, <1>29, <1>30 DEF Live

-----------------------------------------------------------------------------
(* What is sent and written                                                *)

\* n bytes were written: those in o have been sent, those in wb are left.
Written(o, wb, n) == o \o FlattenSeq(wb) = Upto(n)

\* o is what was sent first.
InOrder(o) == o \in Seq(Nat) /\ o = Upto(Len(o))

\* What is sent and what is left are what there was.
LEMMA Sends ==
  ASSUME NEW wb \in WriteBuffers, wb # <<>>, NEW k \in 1 .. Len(Head(wb)),
         NEW o \in Seq(Nat), NEW n \in Nat, Written(o, wb, n)
  PROVE  /\ InOrder(o \o SubSeq(Head(wb), 1, k))
         /\ Written(o \o SubSeq(Head(wb), 1, k), Remaining(wb, k), n)
<1> DEFINE h == Head(wb)
           a == SubSeq(h, 1, k)
           b == SubSeq(h, k + 1, Len(h))
           t == Tail(wb)
           T == FlattenSeq(t)
           sent == o \o a
           S == Seq(Nat)
<1>1. wb \in Seq(S)
  <2>1. S \ {<<>>} \subseteq S
    OBVIOUS
  <2>2. wb \in Seq(S \ {<<>>})
    BY DEF WriteBuffers
  <2> HIDE DEF S
  <2> QED BY <2>1, <2>2, SeqMonotonic
<1>2. h \in S /\ t \in Seq(S)
  <2> HIDE DEF S
  <2> QED BY <1>1, HeadTailProperties
<1>3. k \in 0 .. Len(h) /\ Len(h) \in Nat
  BY <1>2, LenProperties
<1>4. /\ a \in S /\ b \in S /\ a \o b = h
      /\ k = Len(h) => a = h /\ b = <<>>
  <2> HIDE DEF h
  <2> QED BY <1>2, <1>3, Halves
<1>5. T \in S
  BY <1>2, FlattenType
<1>6. FlattenSeq(wb) = h \o T
  BY <1>1, FlattenHead
<1>7. FlattenSeq(Remaining(wb, k)) = b \o T
  <2>1. CASE k = Len(h)
    <3>1. Remaining(wb, k) = t
      BY <2>1 DEF Remaining
    <3>2. <<>> \o T = T
      <4> HIDE DEF T
      <4> QED BY <1>5, ConcatEmptySeq
    <3> HIDE DEF t, b
    <3> QED BY <1>4, <2>1, <3>1, <3>2 DEF T
  <2>2. CASE k # Len(h)
    <3> DEFINE s == <<b>> \o t
    <3>1. Remaining(wb, k) = s
      BY <2>2 DEF Remaining
    <3> HIDE DEF S, b, t
    <3>2. <<b>> \in Seq(S) /\ Len(<<b>>) = 1 /\ <<b>>[1] = b
      BY <1>4
    <3>3. /\ s \in Seq(S) /\ Len(s) = 1 + Len(t) /\ Len(t) \in Nat
          /\ \A i \in 1 .. 1 + Len(t) : s[i] = IF i <= 1 THEN b ELSE t[i - 1]
      BY <1>2, <3>2, ConcatProperties, LenProperties
    <3> HIDE DEF s
    <3>4. s # <<>> /\ s[1] = b
      <4>1. Len(s) # 0 /\ 1 \in 1 .. 1 + Len(t)
        BY <3>3
      <4>2. s[1] = b
        BY <3>3, <4>1
      <4> QED BY <4>1, <4>2, EmptySeq
    <3>5. /\ Tail(s) \in Seq(S) /\ Len(Tail(s)) = Len(s) - 1 /\ Head(s) = s[1]
          /\ \A i \in 1 .. Len(Tail(s)) : Tail(s)[i] = s[i + 1]
      BY <3>3, <3>4, HeadTailProperties
    <3>6. Tail(s) = t
      <4> DEFINE u == Tail(s)
      <4>1. u \in Seq(S) /\ Len(u) = Len(t)
        BY <3>3, <3>5
      <4>2. ASSUME NEW i \in 1 .. Len(u) PROVE u[i] = t[i]
        <5>1. i + 1 \in 1 .. 1 + Len(t) /\ ~(i + 1 <= 1) /\ (i + 1) - 1 = i
          BY <3>3, <4>1
        <5> QED BY <3>3, <3>5, <5>1
      <4> HIDE DEF u
      <4>3. u = t
        BY <1>2, <4>1, <4>2, SeqEqual
      <4> QED BY <4>3 DEF u
    <3>7. FlattenSeq(s) = b \o FlattenSeq(t)
      BY <3>3, <3>4, <3>5, <3>6, FlattenHead DEF S
    <3> QED BY <3>1, <3>7
  <2> QED BY <2>1, <2>2
<1>8. Associates(Nat)
  BY ConcatAssociates
<1> HIDE DEF a, b, T, h, S
<1>9. sent \in Seq(Nat) /\ b \o T \in Seq(Nat)
  BY <1>4, <1>5, ConcatProperties DEF S
<1>10. sent \o (b \o T) = o \o (h \o T)
  <2>1. a \in Seq(Nat) /\ b \in Seq(Nat) /\ T \in Seq(Nat)
    BY <1>4, <1>5 DEF S
  <2> DEFINE r == b \o T
  <2>2. r \in Seq(Nat) /\ o \in Seq(Nat)
    BY <1>9
  <2>3. (a \o b) \o T = a \o r
    BY ONLY ZenonT(30), <1>8, <2>1 DEF Associates
  <2> HIDE DEF r
  <2>4. (o \o a) \o r = o \o (a \o r)
    BY ONLY ZenonT(30), <1>8, <2>1, <2>2 DEF Associates
  <2> QED BY <1>4, <2>3, <2>4 DEF r
<1>11. sent \o (b \o T) = Upto(n)
  BY <1>6, <1>10 DEF Written
<1>12. sent = Upto(Len(sent))
  <2> HIDE DEF sent
  <2> DEFINE r == b \o T
  <2>1. r \in Seq(Nat) /\ sent \o r = Upto(n)
    BY <1>9, <1>11
  <2> HIDE DEF r
  <2> QED BY <1>9, <2>1, UptoPrefix
<1>13. InOrder(sent)
  BY <1>9, <1>12 DEF InOrder
<1>14. Written(sent, Remaining(wb, k), n)
  <2> HIDE DEF sent
  <2> QED BY <1>7, <1>11 DEF Written
<1> QED BY <1>13, <1>14 DEF a, h

\* A socket that is open sends, is written to or fails to send: its history is x then.
LEMMA SlotKeeps ==
  ASSUME Live, NEW id \in Watched, \A i \in DOMAIN result : Announced(i) => result[i].new # id,
         NEW x \in ConnType, conn' = [conn EXCEPT ![id] = x],
         x.got = conn[id].got, x.given = conn[id].given, x.told = conn[id].told,
         x.out = Upto(Len(x.out)),
         \/ x.left = conn[id].left
         \/ conn[id].left = "no" /\ x.left # "no" /\ x.left # "asked",
         OthersKept(pool, pool', id),
         \/ Watched' = Watched \ {id} /\ x.left # "no"
         \/ /\ Watched' = Watched /\ x.left = conn[id].left
            /\ Slot(pool', id).status = Slot(pool, id).status
            /\ Slot(pool', id).listen = Slot(pool, id).listen
            /\ Slot(pool', id).listen => Slot(pool', id).wb = <<>>
            /\ x.out \o FlattenSeq(Slot(pool', id).wb) = Upto(x.written),
         event' = NoEvent \/ (event.id = id /\ EventLess), ~event'.read,
         event'.write /\ id \in Watched' => Slot(pool', id).wb # <<>>,
         UNCHANGED <<sockets, alive, phase, ready, result>>,
         phase = "poll" => id \notin ready
  PROVE  Live'
<1>2. /\ PoolOK(pool) /\ Watched = DOMAIN pool.ev /\ Watched \subseteq Opened
      /\ Opened \subseteq Nat \ {0} /\ Nobody \notin Opened /\ id \in Nat /\ id \in Opened
      /\ DOMAIN sockets \subseteq Opened
      /\ \A i \in DOMAIN result : result[i].fd \in Opened /\ result[i].new \in Opened \union {Nobody}
  BY Typed, OwnerTypes
<1>3. /\ Opened' = Opened /\ conn' \in [Opened' -> ConnType]
      /\ conn'[id] = x /\ \A w \in Opened \ {id} : conn'[w] = conn[w]
  BY <1>2, ConnSet
<1>5. \A w \in Opened : /\ conn'[w].got = conn[w].got /\ conn'[w].given = conn[w].given
                        /\ conn'[w].told = conn[w].told
                        /\ \/ conn'[w].left = conn[w].left
                           \/ conn[w].left = "no" /\ conn'[w].left # "no" /\ conn'[w].left # "asked"
  BY <1>3
<1>6. /\ PoolOK(pool') /\ pool'.id = pool.id
      /\ \A w \in Nat : Slot(pool', w).id = Slot(pool, w).id
      /\ \A w \in Watched \ {id} : Slot(pool', w) = Slot(pool, w)
  BY <1>2 DEF OthersKept
<1>7. /\ Watched' \subseteq Watched /\ Watched \ {id} \subseteq Watched'
      /\ \A w \in Watched' : /\ Slot(pool', w).status = Slot(pool, w).status
                             /\ Slot(pool', w).listen = Slot(pool, w).listen
                             /\ w # id => Slot(pool', w) = Slot(pool, w)
  BY <1>6
<1>10. event' \in EventType /\ event'.id \in {0, id}
       /\ (event' = NoEvent \/ (event'.id = id /\ event.id = id /\ event # NoEvent
                                 /\ (event'.read \/ event'.write)))
  <2>1. CASE event' = NoEvent
    BY <2>1, NoEventIs
  <2>2. CASE event.id = id /\ EventLess
    BY <1>2, <2>2, NoEventIs DEF EventLess
  <2> QED BY <2>1, <2>2
<1>11. /\ \A w : Owner(w)' = Owner(w) /\ Kept(w)' = Kept(w) /\ InTable(w)' = InTable(w)
       /\ \A w : InResult(w)' = InResult(w)
  BY OwnerSame, ResultSame
<1>12. /\ Polling /\ Rounds /\ Owners /\ Fresh /\ ReusedLater /\ WritesInOrder
       /\ OwnerGetsAll /\ ClosedIsHeard /\ NoOrphan /\ Types /\ MainDiesOfReuse
  BY DEF Live
<1>13. id \notin ready
  BY <1>12 DEF Rounds
<1>20. Types'
  <2>1. ResultType' = ResultType /\ EventType' = EventType
    BY <1>3 DEF ResultType, EventType
  <2>2. Watched' \subseteq Opened' /\ Opened' \subseteq 1 .. pool'.id - 1
    BY <1>2, <1>3, <1>6, <1>7, <1>12 DEF Types
  <2> QED BY <1>3, <1>10, <1>12, <2>1, <2>2 DEF Types
<1>21. Polling'
  <2>1. ready \subseteq Watched
    BY <1>12 DEF Polling
  <2> QED BY <1>7, <1>13, <2>1 DEF Polling
<1>22. WritesInOrder'
  <2>1. ASSUME NEW w \in Opened
        PROVE  /\ conn'[w].out = Upto(Len(conn'[w].out))
               /\ w \in Watched' =>
                    conn'[w].out \o FlattenSeq(Slot(pool', w).wb) = Upto(conn'[w].written)
    <3>1. CASE w # id
      <4>1. conn'[w] = conn[w]
        BY <1>3, <3>1
      <4>2. w \in Watched' => w \in Watched /\ Slot(pool', w) = Slot(pool, w)
        BY <1>7, <3>1
      <4> QED BY <1>12, <4>1, <4>2 DEF WritesInOrder
    <3>2. CASE w = id
      BY <1>3, <3>2
    <3> QED BY <3>1, <3>2
  <2> QED BY <1>3, <2>1 DEF WritesInOrder
<1>23. OwnerGetsAll'
  <2>1. ASSUME NEW w \in Opened, Owner(w)' # Nobody, conn'[w].left # "asked"
        PROVE  conn'[w].given \o InTable(w)' \o InResult(w)' = conn'[w].got
    <3>1. Owner(w) # Nobody /\ conn[w].left # "asked"
      BY <1>5, <1>11, <2>1
    <3>2. conn[w].given \o InTable(w) \o InResult(w) = conn[w].got
      BY <1>12, <3>1 DEF OwnerGetsAll
    <3> QED BY <1>5, <1>11, <3>2
  <2> QED BY <1>3, <2>1 DEF OwnerGetsAll
<1>24. ClosedIsHeard'
  <2>1. ASSUME NEW w \in Opened' \ Watched', conn'[w].left = "no"
        PROVE  w \in Opened \ Watched /\ conn[w].left = "no" /\ conn'[w].got = conn[w].got
    BY <1>3, <1>5, <1>7, <2>1
  <2> QED BY <1>12, <2>1 DEF ClosedIsHeard
<1>25. NoOrphan'
  <2>1. ASSUME NEW w \in Watched'
        PROVE  \/ Owner(w)' # Nobody
               \/ Slot(pool', w).status = "halfclose"
               \/ \E i \in DOMAIN result' : result'[i].new = w
               \/ conn'[w].left = "orphan" /\ alive' # Cell
    <3>1. w \in Watched /\ w \in Opened
      BY <1>2, <1>7, <2>1
    <3>2. conn[w].left = "orphan" => conn'[w].left = "orphan"
      BY <1>5, <3>1
    <3> QED BY <1>7, <1>11, <1>12, <2>1, <3>1, <3>2 DEF NoOrphan
  <2> QED BY <2>1 DEF NoOrphan
<1>26. MainDiesOfReuse'
  <2> SUFFICES ASSUME phase' = "dead" PROVE MainDiesOfReuse'
    BY DEF MainDiesOfReuse
  <2>1. PICK e : e = Head(result)
    OBVIOUS
  <2>2. /\ Owner(e.fd) = Nobody /\ alive # Cell /\ e.fd \notin Watched
        /\ \E i \in DOMAIN result : result[i].new \in Opened /\ result[i].new > e.fd
    BY <1>12, <2>1 DEF MainDiesOfReuse
  <2>3. PICK f : f = e.fd
    OBVIOUS
  <2>4. Owner(f)' = Nobody /\ f \notin Watched' /\ f = Head(result').fd
    BY <1>7, <1>11, <2>1, <2>2, <2>3
  <2> QED BY <1>3, <2>2, <2>3, <2>4 DEF MainDiesOfReuse
<1>27. Rounds'
  <2>1. Cap(pool') # 0 /\ phase # "exited"
    BY <1>6, <1>12 DEF PoolOK, PoolTypes, Types
  <2>2. event' = NoEvent \/ (event'.id \in Opened' \ ready' /\ (event'.read \/ event'.write))
    BY <1>2, <1>3, <1>10, <1>13
  <2>3. event'.write /\ event'.id \in Watched' => Slot(pool', event'.id).wb # <<>>
    BY <1>10, NoEventIs
  <2>4. phase' # "poll" => ready' = {} /\ event' = NoEvent
    BY <1>10, <1>12 DEF Rounds
  <2>5. phase' \in {"sleep", "exited"} => result' = <<>>
    BY <1>12 DEF Rounds
  <2>6. phase' = "dead" => /\ result' # <<>> /\ conn'[Head(result').fd].told # "no"
                           /\ conn'[Head(result').fd].told = "yes"
    <3> SUFFICES ASSUME phase = "dead"
                 PROVE  result # <<>> /\ conn'[Head(result).fd].told = "yes"
      OBVIOUS
    <3>1. result # <<>> /\ conn[Head(result).fd].told = "yes"
      BY <1>12 DEF Rounds
    <3>2. Head(result).fd \in Opened
      BY <3>1, Typed, HeadTailProperties DEF ResultType
    <3> QED BY <1>5, <3>1, <3>2
  <2> QED BY <2>1, <2>2, <2>3, <2>4, <2>5, <2>6 DEF Rounds, Known
<1>28. Owners'
  <2>1. ASSUME NEW w \in Opened
        PROVE  /\ Owner(w)' \in Cell => conn'[w].told = "yes"
               /\ conn'[w].told = "forward" =>
                    w \in DOMAIN sockets' /\ (Owner(w)' = Nobody => conn'[w].left = "asked")
               /\ w \in Watched' =>
                    /\ Slot(pool', w).status = "halfclose" => conn'[w].left = "asked"
                    /\ Slot(pool', w).listen => Slot(pool', w).wb = <<>>
    <3>1. conn'[w].told = conn[w].told /\ Owner(w)' = Owner(w) /\ sockets' = sockets
          /\ (conn[w].left = "asked" => conn'[w].left = "asked")
      BY <1>5, <1>11
    <3>2. w \in Watched' => /\ w \in Watched
                            /\ Slot(pool', w).status = Slot(pool, w).status
                            /\ w # id => Slot(pool', w).listen = Slot(pool, w).listen
                                         /\ Slot(pool', w).wb = Slot(pool, w).wb
                            /\ w = id => (Slot(pool', w).listen => Slot(pool', w).wb = <<>>)
      BY <1>7
    <3> QED BY <1>12, <3>1, <3>2 DEF Owners, Listening
  <2> QED BY <1>3, <2>1 DEF Owners, Listening
<1>29. Fresh'
  <2> SUFFICES ASSUME NEW i \in DOMAIN result', Announced(i)'
               PROVE  Unheard(i, result[i].new)'
    BY DEF Fresh
  <2>1. i \in DOMAIN result /\ Announced(i)
    BY DEF Announced
  <2>2. PICK v, m : v = result[i].new /\ m = result[i].fd
    OBVIOUS
  <2>3. Unheard(i, v)
    BY <1>12, <2>1, <2>2 DEF Fresh
  <2>4. v # id /\ v # Nobody /\ v \in Opened /\ v # 0
    <3>1. v # Nobody /\ v \in Opened \union {Nobody}
      BY <1>2, <2>1, <2>2 DEF Announced
    <3> QED BY <1>2, <2>1, <2>2, <3>1
  <2>5. \A j \in DOMAIN result' : result'[j].fd # v /\ (result'[j].new = v => j = i)
    BY <2>3 DEF Unheard
  <2>6. v \notin ready' \union {event'.id}
    BY <1>10, <2>3, <2>4 DEF Unheard
  <2>7. conn'[v] = NewConn("no") /\ v \notin DOMAIN sockets' /\ v \in Watched' /\ ~Slot(pool', v).listen
    BY <1>3, <1>7, <2>3, <2>4 DEF Unheard, Listening
  <2>8. Owner(m)' # Nobody \/ alive' # Cell
    <3>1. Owner(m) # Nobody \/ alive # Cell
      BY <2>2, <2>3 DEF Unheard
    <3> QED BY <1>11, <3>1
  <2>9. v = result'[i].new /\ m = result'[i].fd
    BY <2>2
  <2>10. Unheard(i, v)'
    BY <2>5, <2>6, <2>7, <2>8, <2>9 DEF Unheard, Listening
  <2> QED BY <2>9, <2>10
<1>30. ReusedLater'
  <2>1. ASSUME phase = "poll", NEW i \in DOMAIN result
        PROVE  \/ result[i].new # Nobody
               \/ Slot(pool', result[i].fd).id = result[i].fd
               \/ \E j \in DOMAIN result :
                    j > i /\ result[j].new \in Opened /\ result[j].new > result[i].fd
    <3>1. \/ result[i].new # Nobody
          \/ Slot(pool, result[i].fd).id = result[i].fd
          \/ \E j \in DOMAIN result :
               j > i /\ result[j].new \in Opened /\ result[j].new > result[i].fd
      BY <1>12, <2>1 DEF ReusedLater, Announced
    <3>2. result[i].fd \in Nat
      BY <1>2
    <3> QED BY <1>6, <3>1, <3>2
  <2> QED BY <1>3, <2>1 DEF ReusedLater, Announced
<1> QED BY <1>6, <1>20, <1>21, <1>22, <1>23, <1>24, <1>25, <1>26, <1>27, <1>28, <1>29, <1>30 DEF Live

\* Send keeps it: what is sent is taken from the buffers, at their head.
LEMMA SendKeeps ==
  ASSUME Live, NEW id \in Opened, Send(id)
  PROVE  Live'
<1> DEFINE wb == Slot(pool, id).wb
           h == Head(wb)
           c == conn[id]
<1>1. PICK k \in 0 .. Len(h) :
        /\ pool' = IF k = 0 THEN pool ELSE CloseDrained(Drained(pool, id, k), id)
        /\ conn' = [conn EXCEPT ![id].out = @ \o SubSeq(h, 1, k)]
        /\ event' = IF k = Len(h) /\ Len(wb) > 1 THEN event ELSE NoEvent
  BY DEF Send
<1>2. Writing(id) /\ id \in Watched /\ UNCHANGED <<sockets, alive, phase, ready, result>>
  BY DEF Send
<1>3. /\ event # NoEvent /\ phase = "poll" /\ event.id = id /\ id \notin ready
      /\ wb # <<>> /\ ~event.read
      /\ \A i \in DOMAIN result : Announced(i) => result[i].new # id
  BY <1>2, Handling DEF Writing
<1>4. PoolOK(pool) /\ Watched = DOMAIN pool.ev /\ c \in ConnType
  BY Typed
<1>5. wb \in WriteBuffers /\ (Slot(pool, id).listen => wb = <<>>)
      /\ (Slot(pool, id).status = "halfclose" => c.left = "asked")
  <2>1. Slot(pool, id) \in SlotType
    BY <1>2, <1>4, SlotFound
  <2>2. wb \in WriteBuffers
    BY <2>1, SlotFields DEF WriteBuffers
  <2> QED BY <1>2, <2>2 DEF Live, Owners, Listening
<1>6. h \in Seq(Nat) \ {<<>>} /\ Len(h) \in Nat \ {0} /\ Len(wb) \in Nat
  <2> HIDE DEF wb
  <2>1. h \in Seq(Nat) \ {<<>>} /\ Len(wb) \in Nat
    BY <1>3, <1>5, HeadTailProperties, LenProperties DEF WriteBuffers
  <2> HIDE DEF h
  <2> QED BY <2>1, EmptySeq
<1>7. /\ c.got \in Seq(Byte) /\ c.given \in Seq(Byte) /\ c.out \in Seq(Nat)
      /\ c.written \in Nat /\ c.told \in {"no", "yes", "forward"}
      /\ c.left \in {"no", "asked", "failed", "orphan"}
  BY <1>4, ConnFields
<1>8. c.out = Upto(Len(c.out)) /\ c.out \o FlattenSeq(wb) = Upto(c.written)
  BY <1>2 DEF Live, WritesInOrder
<1> DEFINE a == SubSeq(h, 1, k)
           out == c.out \o a
           x == Conn(c.got, c.given, out, c.written, c.told, c.left)
<1>9. event' = event \/ event' = NoEvent
  BY <1>1
<1>10. EventLess /\ ~event'.read
  <2>1. EventLess
    BY <1>3, <1>9, EventDone
  <2> QED BY <1>3, <2>1 DEF EventLess
<1>11. k = 0 => a = <<>>
  <2> HIDE DEF h
  <2>1. 0 \in 0 .. Len(h)
    BY <1>6
  <2> QED BY <1>6, <2>1, Halves
<1>12. out \in Seq(Nat) /\ out = Upto(Len(out))
  <2>1. CASE k = 0
    <3> HIDE DEF c, a
    <3> QED BY <1>7, <1>8, <1>11, <2>1, ConcatEmptySeq
  <2>2. CASE k # 0
    <3>1. k \in 1 .. Len(h)
      BY <1>6, <2>2
    <3> DEFINE o == c.out
    <3>2. o \in Seq(Nat) /\ o \o FlattenSeq(wb) = Upto(c.written) /\ c.written \in Nat
      BY <1>7, <1>8
    <3> HIDE DEF o, wb, c
    <3>3. wb \in WriteBuffers /\ wb # <<>> /\ k \in 1 .. Len(Head(wb))
      BY <1>3, <1>5, <3>1
    <3> DEFINE n == c.written
    <3>4. n \in Nat /\ Written(o, wb, n)
      BY <3>2 DEF Written
    <3> HIDE DEF n
    <3>5. InOrder(o \o SubSeq(Head(wb), 1, k))
      BY <3>2, <3>3, <3>4, Sends
    <3> QED BY <3>5 DEF o, InOrder
  <2> QED BY <2>1, <2>2
<1>13. x \in ConnType
  <2> HIDE DEF c, out
  <2> QED BY <1>7, <1>12 DEF Conn, ConnType
<1>14. conn' = [conn EXCEPT ![id] = x]
  <2>1. [c EXCEPT !.out = out] = x
    <3> HIDE DEF c, out
    <3> QED BY <1>4, ConnChanges
  <2> HIDE DEF x
  <2> QED BY <1>1, <2>1
<1>15. /\ x.got = c.got /\ x.given = c.given /\ x.out = out /\ x.written = c.written
       /\ x.told = c.told /\ x.left = c.left
  <2> HIDE DEF c, out
  <2> QED BY DEF Conn
<1>16. OthersKept(pool, pool', id)
       /\ \/ Watched' = Watched \ {id} /\ c.left = "asked"
          \/ /\ Watched' = Watched
             /\ Slot(pool', id).status = Slot(pool, id).status
             /\ Slot(pool', id).listen = Slot(pool, id).listen
             /\ out \o FlattenSeq(Slot(pool', id).wb) = Upto(c.written)
       /\ (event' = event => id \in Watched' /\ Slot(pool', id).wb # <<>>)
  <2>1. CASE k = 0
    <3>1. pool' = pool /\ Watched' = Watched /\ event' # event
      <4>1. k # Len(h)
        BY <1>6, <2>1
      <4>2. event' = NoEvent
        BY <1>1, <4>1
      <4> QED BY <1>1, <1>3, <2>1, <4>2 DEF Watched
    <3>2. out = c.out
      <4> HIDE DEF a, c
      <4> QED BY <1>7, <1>11, <2>1, ConcatEmptySeq
    <3>3. OthersKept(pool, pool', id)
      BY <1>4, <3>1, Reflexive
    <3> HIDE DEF out
    <3> QED BY <1>8, <3>1, <3>2, <3>3
  <2>2. CASE k # 0
    <3>1. k \in 1 .. Len(h)
      BY <1>6, <2>2
    <3> DEFINE rest == Remaining(wb, k)
    <3>2. /\ OthersKept(pool, pool', id)
          /\ \/ DOMAIN pool'.ev = DOMAIN pool.ev \ {id} /\ rest = <<>> /\ Slot(pool, id).status = "halfclose"
             \/ DOMAIN pool'.ev = DOMAIN pool.ev /\ Slot(pool', id) = [Slot(pool, id) EXCEPT !.wb = rest]
      <4>1. pool' = CloseDrained(Drained(pool, id, k), id)
        BY <1>1, <2>2
      <4>2. id \in DOMAIN pool.ev /\ PoolOK(pool)
        BY <1>2, <1>4
      <4>3. Slot(pool, id).wb # <<>> /\ k \in 1 .. Len(Head(Slot(pool, id).wb))
        BY <1>3, <3>1
      <4> DEFINE q == CloseDrained(Drained(pool, id, k), id)
                 left == Remaining(Slot(pool, id).wb, k)
      <4>4. /\ OthersKept(pool, q, id)
            /\ \/ DOMAIN q.ev = DOMAIN pool.ev \ {id} /\ left = <<>> /\ Slot(pool, id).status = "halfclose"
               \/ DOMAIN q.ev = DOMAIN pool.ev /\ Slot(q, id) = [Slot(pool, id) EXCEPT !.wb = left]
        BY <4>2, <4>3, DrainedOf
      <4>5. rest = left
        OBVIOUS
      <4> HIDE DEF q, left, rest
      <4>6. pool' = q
        BY <4>1 DEF q
      <4> QED BY <4>4, <4>5, <4>6
    <3>3. out \o FlattenSeq(rest) = Upto(c.written)
      <4> DEFINE o == c.out
      <4>2. o \in Seq(Nat) /\ o \o FlattenSeq(wb) = Upto(c.written) /\ c.written \in Nat
        BY <1>7, <1>8
      <4> HIDE DEF o, wb, c
      <4>3. wb \in WriteBuffers /\ wb # <<>> /\ k \in 1 .. Len(Head(wb))
        BY <1>3, <1>5, <3>1
      <4> DEFINE n == c.written
      <4>4. n \in Nat /\ Written(o, wb, n)
        BY <4>2 DEF Written
      <4> HIDE DEF n
      <4>5. Written(o \o SubSeq(Head(wb), 1, k), Remaining(wb, k), n)
        BY <4>2, <4>3, <4>4, Sends
      <4>6. (o \o a) \o FlattenSeq(rest) = Upto(n)
        BY <4>5 DEF Written
      <4> QED BY <4>6 DEF o, n
    <3>4. event' = event => rest # <<>>
      <4> SUFFICES ASSUME event' = event PROVE rest # <<>>
        OBVIOUS
      <4>1. k = Len(h) /\ Len(wb) > 1
        BY <1>1, <1>3
      <4>2. rest = Tail(wb)
        BY <4>1 DEF Remaining
      <4>3. Len(Tail(wb)) = Len(wb) - 1
        <5> HIDE DEF wb
        <5> QED BY <1>3, <1>5, HeadTailProperties DEF WriteBuffers
      <4>4. Len(Tail(wb)) # 0
        <5> DEFINE m == Len(wb)
                   j == Len(Tail(wb))
        <5>1. m \in Nat /\ m > 1 /\ j = m - 1
          BY <1>6, <4>1, <4>3
        <5> HIDE DEF m, j
        <5>2. j # 0
          BY <5>1
        <5> QED BY <5>2 DEF j
      <4> QED BY <4>2, <4>4, EmptySeq
    <3>5. /\ [Slot(pool, id) EXCEPT !.wb = rest].wb = rest
          /\ [Slot(pool, id) EXCEPT !.wb = rest].status = Slot(pool, id).status
          /\ [Slot(pool, id) EXCEPT !.wb = rest].listen = Slot(pool, id).listen
      <4>1. Slot(pool, id) \in SlotType
        BY <1>2, <1>4, SlotFound
      <4> DEFINE s == Slot(pool, id)
      <4>2. s = [id |-> s.id, status |-> s.status, listen |-> s.listen, wb |-> s.wb]
        BY <4>1, SlotFields
      <4> HIDE DEF s, rest
      <4>3. [s EXCEPT !.wb = rest].wb = rest /\ [s EXCEPT !.wb = rest].status = s.status
            /\ [s EXCEPT !.wb = rest].listen = s.listen
        BY <4>2
      <4> QED BY <4>3 DEF s
    <3> HIDE DEF rest, out, c
    <3>6. CASE DOMAIN pool'.ev = DOMAIN pool.ev \ {id} /\ rest = <<>> /\ Slot(pool, id).status = "halfclose"
      BY <1>4, <1>5, <3>2, <3>4, <3>6 DEF Watched
    <3>7. CASE DOMAIN pool'.ev = DOMAIN pool.ev /\ Slot(pool', id) = [Slot(pool, id) EXCEPT !.wb = rest]
      <4>1. /\ Slot(pool', id).wb = rest /\ Slot(pool', id).status = Slot(pool, id).status
            /\ Slot(pool', id).listen = Slot(pool, id).listen
        BY <3>5, <3>7
      <4>2. Watched' = Watched
        BY <1>4, <3>7 DEF Watched
      <4> QED BY <1>2, <3>2, <3>3, <3>4, <4>1, <4>2
    <3> QED BY <3>2, <3>6, <3>7
  <2> QED BY <2>1, <2>2
<1>17. event'.write /\ id \in Watched' => Slot(pool', id).wb # <<>>
  BY <1>9, <1>16, NoEventIs
<1>18. ~Slot(pool, id).listen
  BY <1>3, <1>5
<1> HIDE DEF x, c, out, wb
<1>19. \/ Watched' = Watched \ {id} /\ x.left # "no"
       \/ /\ Watched' = Watched /\ x.left = conn[id].left
          /\ Slot(pool', id).status = Slot(pool, id).status
          /\ Slot(pool', id).listen = Slot(pool, id).listen
          /\ Slot(pool', id).listen => Slot(pool', id).wb = <<>>
          /\ x.out \o FlattenSeq(Slot(pool', id).wb) = Upto(x.written)
  BY <1>15, <1>16, <1>18 DEF c
<1>20. x.got = conn[id].got /\ x.given = conn[id].given /\ x.told = conn[id].told
       /\ x.left = conn[id].left /\ x.out = Upto(Len(x.out))
  BY <1>12, <1>15 DEF c
<1> QED BY <1>2, <1>3, <1>10, <1>13, <1>14, <1>16, <1>17, <1>19, <1>20, SlotKeeps

\* SendFails keeps it: the owner of the closed socket never hears, and the history says so.
LEMMA SendFailsKeeps ==
  ASSUME Live, NEW id \in Opened, SendFails(id)
  PROVE  Live'
<1> DEFINE c == conn[id]
           left == IF c.left = "no" THEN "failed" ELSE c.left
           x == Conn(c.got, c.given, c.out, c.written, c.told, left)
<1>1. /\ Writing(id) /\ id \in Watched /\ pool' = force_close(pool, id)
      /\ conn' = [conn EXCEPT ![id].left = IF @ = "no" THEN "failed" ELSE @]
      /\ event' = NoEvent /\ UNCHANGED <<sockets, alive, phase, ready, result>>
  BY DEF SendFails
<1>2. /\ phase = "poll" /\ id \notin ready
      /\ \A i \in DOMAIN result : Announced(i) => result[i].new # id
  BY <1>1, Handling
<1>3. PoolOK(pool) /\ Watched = DOMAIN pool.ev /\ c \in ConnType
  BY Typed
<1>4. /\ c.got \in Seq(Byte) /\ c.given \in Seq(Byte) /\ c.out \in Seq(Nat)
      /\ c.written \in Nat /\ c.told \in {"no", "yes", "forward"}
      /\ c.left \in {"no", "asked", "failed", "orphan"}
  BY <1>3, ConnFields
<1>5. left \in {"no", "asked", "failed", "orphan"} /\ left # "no"
      /\ (left = c.left \/ (c.left = "no" /\ left # "no" /\ left # "asked"))
  <2> HIDE DEF c
  <2> QED BY <1>4
<1>6. x \in ConnType
  <2> HIDE DEF c, left
  <2> QED BY <1>4, <1>5 DEF Conn, ConnType
<1>7. conn' = [conn EXCEPT ![id] = x]
  <2>1. [c EXCEPT !.left = left] = x
    <3> HIDE DEF c, left
    <3> QED BY <1>3, ConnChanges
  <2>2. conn' = [conn EXCEPT ![id] = [c EXCEPT !.left = left]]
    BY <1>1
  <2> HIDE DEF x, c, left
  <2> QED BY <2>1, <2>2
<1>8. /\ x.got = c.got /\ x.given = c.given /\ x.out = c.out
      /\ x.told = c.told /\ x.left = left
  <2> HIDE DEF c, left
  <2> QED BY DEF Conn
<1>9. OthersKept(pool, pool', id) /\ Watched' = Watched \ {id}
  BY <1>1, <1>3, ForceCloseOf DEF Watched
<1>10. c.out = Upto(Len(c.out))
  BY DEF Live, WritesInOrder
<1> HIDE DEF x, left
<1> QED BY <1>1, <1>2, <1>5, <1>6, <1>7, <1>8, <1>9, <1>10, NoEventIs, SlotKeeps

\* n bytes are written to a socket that has accepted w and sent o, of which the kernel
\* takes k at once, unless some are buffered.
WritesFrom(o, wb, w, n, k) ==
  /\ wb \in WriteBuffers /\ o \in Seq(Nat) /\ w \in Nat /\ n \in Nat \ {0}
  /\ o \o FlattenSeq(wb) = Upto(w) /\ k \in 0 .. n /\ (wb # <<>> => k = 0)

\* What is buffered of them, what the socket has sent then, and its buffers.
Rest(w, n, k) == SubSeq(From(w, n), k + 1, n)
Sent(o, w, n, k) == o \o SubSeq(From(w, n), 1, k)
Buffers(wb, rest) == IF rest = <<>> THEN wb ELSE Append(wb, rest)

\* What is written goes after what was, whether it is sent at once or buffered.
LEMMA Writes ==
  ASSUME NEW o, NEW wb, NEW w, NEW n, NEW k, WritesFrom(o, wb, w, n, k)
  PROVE  /\ Sent(o, w, n, k) \in Seq(Nat) /\ Rest(w, n, k) \in Seq(Nat)
         /\ Sent(o, w, n, k) = Upto(Len(Sent(o, w, n, k)))
         /\ Sent(o, w, n, k) \o FlattenSeq(Buffers(wb, Rest(w, n, k))) = Upto(w + n)
<1>0. /\ wb \in WriteBuffers /\ o \in Seq(Nat) /\ w \in Nat /\ n \in Nat \ {0}
      /\ o \o FlattenSeq(wb) = Upto(w) /\ k \in 0 .. n /\ (wb # <<>> => k = 0)
  BY DEF WritesFrom
<1> DEFINE b == From(w, n)
           u == SubSeq(b, 1, k)
           v == SubSeq(b, k + 1, n)
           F == FlattenSeq(wb)
           out == o \o u
           buffers == IF v = <<>> THEN wb ELSE Append(wb, v)
           S == Seq(Nat)
<1>1. b \in S /\ Len(b) = n
  BY <1>0, FromType
<1> HIDE DEF b
<1>2. /\ u \in S /\ v \in S /\ u \o v = b
      /\ k = 0 => u = <<>> /\ v = b
  <2>1. k \in 0 .. Len(b)
    BY <1>0, <1>1
  <2>2. /\ SubSeq(b, 1, k) \in S /\ SubSeq(b, k + 1, Len(b)) \in S
        /\ SubSeq(b, 1, k) \o SubSeq(b, k + 1, Len(b)) = b
        /\ k = 0 => SubSeq(b, 1, k) = <<>> /\ SubSeq(b, k + 1, Len(b)) = b
    BY <1>1, <2>1, Halves
  <2> HIDE DEF S
  <2> QED BY <1>1, <2>2
<1>3. wb \in Seq(S)
  <2>1. S \ {<<>>} \subseteq S
    OBVIOUS
  <2>2. wb \in Seq(S \ {<<>>})
    BY <1>0 DEF WriteBuffers
  <2> HIDE DEF S
  <2> QED BY <2>1, <2>2, SeqMonotonic
<1>4. F \in S
  BY <1>3, FlattenType
<1>5. (o \o F) \o b = Upto(w + n)
  BY <1>0, UptoMore DEF b
<1>6. Associates(Nat)
  BY ConcatAssociates
<1> HIDE DEF u, v
<1>7. out \in S
  BY <1>0, <1>2, ConcatProperties
<1>8. FlattenSeq(buffers) \in S /\ out \o FlattenSeq(buffers) = (o \o F) \o b
  <2>1. CASE wb # <<>>
    <3>1. u = <<>> /\ v = b
      BY <1>0, <1>2, <2>1
    <3>2. v # <<>>
      BY <1>0, <1>1, <3>1, EmptySeq
    <3>3. FlattenSeq(Append(wb, v)) = F \o v
      BY <1>2, <1>3, FlattenAppend
    <3>4. F \o v \in S
      BY <1>2, <1>4, ConcatProperties
    <3>5. out = o
      BY <1>0, <3>1, ConcatEmptySeq
    <3>6. o \o (F \o v) = (o \o F) \o v
      <4> HIDE DEF F
      <4> QED BY <1>0, <1>2, <1>4, <1>6 DEF Associates
    <3> HIDE DEF out, F
    <3> QED BY <3>1, <3>2, <3>3, <3>4, <3>5, <3>6
  <2>2. CASE wb = <<>>
    <3>1. F = <<>> /\ o \o F = o
      BY <1>0, <2>2, FlattenEmpty, ConcatEmptySeq
    <3>2. FlattenSeq(buffers) = v
      <4>1. CASE v = <<>>
        BY <2>2, <4>1, FlattenEmpty
      <4>2. CASE v # <<>>
        <5>1. FlattenSeq(Append(wb, v)) = F \o v
          BY <1>2, <1>3, FlattenAppend
        <5>2. <<>> \o v = v
          BY <1>2, ConcatEmptySeq
        <5> HIDE DEF F
        <5> QED BY <3>1, <4>2, <5>1, <5>2
      <4> QED BY <4>1, <4>2
    <3>3. (o \o u) \o v = o \o (u \o v)
      BY <1>0, <1>2, <1>6 DEF Associates
    <3> HIDE DEF F, buffers
    <3> QED BY <1>2, <3>1, <3>2, <3>3
  <2> QED BY <2>1, <2>2
<1>9. out = Upto(Len(out))
  <2> DEFINE r == FlattenSeq(buffers)
  <2>1. r \in Seq(Nat) /\ out \o r = Upto(w + n) /\ w + n \in Nat
    BY <1>0, <1>5, <1>8
  <2> HIDE DEF r, out
  <2> QED BY <1>7, <2>1, UptoPrefix
<1>10. Sent(o, w, n, k) = out /\ Rest(w, n, k) = v
  BY DEF Sent, Rest, u, v, b
<1>11. Buffers(wb, v) = buffers
  BY DEF Buffers
<1> HIDE DEF out, buffers
<1> QED BY <1>2, <1>5, <1>7, <1>8, <1>9, <1>10, <1>11

\* A socket that a cell may write to or disconnect is not one that is yet to be announced.
LEMMA KnownIs ==
  ASSUME Live, NEW id \in Opened, Known(id)
  PROVE  \A i \in DOMAIN result : Announced(i) => result[i].new # id
<1>1. Fresh
  BY DEF Live
<1>2. NewConn("no").told = "no"
  BY NewConnOf
<1> QED BY <1>1, <1>2 DEF Fresh, Unheard, Known

\* Main is not in a round when messages are dispatched.
LEMMA WhenDispatching ==
  ASSUME Live, Dispatching
  PROVE  /\ phase # "poll" /\ ready = {} /\ event = NoEvent
         /\ result # <<>> => phase = "dead" /\ alive # Cell
<1>1. Rounds /\ MainDiesOfReuse /\ phase \in {"sleep", "dead"}
  BY DEF Live, Dispatching
<1> QED BY <1>1 DEF Rounds, MainDiesOfReuse

\* Write keeps the invariant: nothing overtakes what is buffered.
LEMMA WriteKeeps ==
  ASSUME Live, NEW id \in Opened, NEW n \in 1 .. MaxBytes, Write(id, n)
  PROVE  Live'
<1> DEFINE wb == Slot(pool, id).wb
           c == conn[id]
           b == From(c.written, n)
<1>1. PICK k \in 0 .. n :
        /\ wb # <<>> => k = 0
        /\ pool' = Buffered(pool, id, SubSeq(b, k + 1, n))
        /\ conn' = [conn EXCEPT ![id].written = @ + n, ![id].out = @ \o SubSeq(b, 1, k)]
  BY DEF Write, From
<1>2. /\ Dispatching /\ Known(id) /\ Writable(pool, id) /\ ~Slot(pool, id).listen
      /\ UNCHANGED <<sockets, alive, phase, ready, event, result>>
  BY DEF Write, Served, Listening
<1>3. PoolOK(pool) /\ Watched = DOMAIN pool.ev /\ c \in ConnType /\ id \in Nat
  BY Typed
<1>4. id \in Watched
  BY <1>2, <1>3, SlotOpen DEF Writable
<1>5. wb \in WriteBuffers /\ n \in Nat \ {0}
  <2>1. Slot(pool, id) \in SlotType
    BY <1>3, <1>4, SlotFound
  <2> QED BY <2>1, SlotFields, SocketAssumption DEF WriteBuffers
<1>6. /\ c.got \in Seq(Byte) /\ c.given \in Seq(Byte) /\ c.out \in Seq(Nat)
      /\ c.written \in Nat /\ c.told \in {"no", "yes", "forward"}
      /\ c.left \in {"no", "asked", "failed", "orphan"}
  BY <1>3, ConnFields
<1>7. c.out \o FlattenSeq(wb) = Upto(c.written)
  BY <1>4 DEF Live, WritesInOrder
<1> DEFINE out == Sent(c.out, c.written, n, k)
           rest == Rest(c.written, n, k)
           buffers == Buffers(wb, rest)
           written == c.written + n
           x == Conn(c.got, c.given, out, written, c.told, c.left)
<1>8. /\ out \in Seq(Nat) /\ rest \in Seq(Nat)
      /\ out = Upto(Len(out)) /\ out \o FlattenSeq(buffers) = Upto(written)
  <2>1. WritesFrom(c.out, wb, c.written, n, k)
    <3> HIDE DEF c, wb, b
    <3> QED BY <1>1, <1>5, <1>6, <1>7 DEF WritesFrom
  <2> HIDE DEF c, wb
  <2> QED BY <2>1, Writes
<1>9. x \in ConnType
  <2>1. written \in Nat
    BY <1>5, <1>6
  <2> HIDE DEF c, out, written
  <2> QED BY <1>6, <1>8, <2>1 DEF Conn, ConnType
<1>10. conn' = [conn EXCEPT ![id] = x]
  <2> DEFINE d == [c EXCEPT !.written = written]
  <2>1. d = Conn(c.got, c.given, c.out, written, c.told, c.left)
    <3> HIDE DEF c, written
    <3> QED BY <1>3, ConnChanges
  <2>2. [d EXCEPT !.out = out] = x
    <3> DEFINE e == Conn(c.got, c.given, c.out, written, c.told, c.left)
    <3>1. [e EXCEPT !.out = out] = x
      <4>1. PICK g, v, o, w, t, l, a :
              /\ g = c.got /\ v = c.given /\ o = c.out /\ w = written
              /\ t = c.told /\ l = c.left /\ a = out
        OBVIOUS
      <4>2. [Conn(g, v, o, w, t, l) EXCEPT !.out = a] = Conn(g, v, a, w, t, l)
        BY DEF Conn
      <4> HIDE DEF c, written, out
      <4> QED BY <4>1, <4>2
    <3> HIDE DEF e, d, x, out
    <3> QED BY <2>1, <3>1 DEF e
  <2>3. conn' = [conn EXCEPT ![id] = [d EXCEPT !.out = out]]
    <3>1. out = c.out \o SubSeq(b, 1, k)
      BY DEF Sent
    <3> HIDE DEF out
    <3>2. conn' = [conn EXCEPT ![id] = [[c EXCEPT !.written = written] EXCEPT !.out = out]]
      BY <1>1, <3>1
    <3> QED BY <3>2
  <2> HIDE DEF x, d, out
  <2> QED BY <2>2, <2>3
<1>11. /\ x.got = c.got /\ x.given = c.given /\ x.out = out /\ x.written = written
       /\ x.told = c.told /\ x.left = c.left
  <2> HIDE DEF c, out, written
  <2> QED BY DEF Conn
<1>12. /\ OthersKept(pool, pool', id) /\ DOMAIN pool'.ev = DOMAIN pool.ev
       /\ Slot(pool', id) = [Slot(pool, id) EXCEPT !.wb = buffers]
  <2>1. pool' = Buffered(pool, id, rest)
    BY <1>1 DEF b, Rest
  <2> DEFINE q == Buffered(pool, id, rest)
             slot == Slot(pool, id)
  <2> HIDE DEF rest
  <2>2. /\ OthersKept(pool, q, id) /\ DOMAIN q.ev = DOMAIN pool.ev
        /\ Slot(q, id) = [slot EXCEPT !.wb = IF rest = <<>> THEN @ ELSE Append(@, rest)]
    BY <1>3, <1>4, <1>8, BufferedOf
  <2>3. [slot EXCEPT !.wb = IF rest = <<>> THEN @ ELSE Append(@, rest)]
          = [slot EXCEPT !.wb = buffers]
    BY DEF Buffers
  <2> HIDE DEF q, slot, buffers
  <2>4. Slot(q, id) = [slot EXCEPT !.wb = buffers]
    BY <2>2, <2>3
  <2> QED BY <2>1, <2>2, <2>4 DEF q, slot
<1>13. /\ Watched' = Watched
       /\ Slot(pool', id).status = Slot(pool, id).status
       /\ Slot(pool', id).listen = Slot(pool, id).listen
       /\ Slot(pool', id).wb = buffers
  <2>1. Slot(pool, id) \in SlotType
    BY <1>3, <1>4, SlotFound
  <2> DEFINE s == Slot(pool, id)
  <2>2. s = [id |-> s.id, status |-> s.status, listen |-> s.listen, wb |-> s.wb]
    BY <2>1, SlotFields
  <2> HIDE DEF s, buffers
  <2>3. [s EXCEPT !.wb = buffers].wb = buffers /\ [s EXCEPT !.wb = buffers].status = s.status
        /\ [s EXCEPT !.wb = buffers].listen = s.listen
    BY <2>2
  <2> QED BY <1>12, <2>3 DEF s, Watched
<1>14. \A i \in DOMAIN result : Announced(i) => result[i].new # id
  BY <1>2, KnownIs
<1>15. event' = NoEvent /\ phase # "poll" /\ ~event'.read /\ ~event'.write
  BY <1>2, WhenDispatching, NoEventIs
<1> HIDE DEF x, out, buffers, written, wb
<1>16. /\ Watched' = Watched /\ x.left = conn[id].left
       /\ Slot(pool', id).status = Slot(pool, id).status
       /\ Slot(pool', id).listen = Slot(pool, id).listen
       /\ Slot(pool', id).listen => Slot(pool', id).wb = <<>>
       /\ x.out \o FlattenSeq(Slot(pool', id).wb) = Upto(x.written)
  BY <1>2, <1>8, <1>11, <1>13
<1> QED BY <1>2, <1>4, <1>8, <1>9, <1>10, <1>11, <1>12, <1>14, <1>15, <1>16, SlotKeeps

-----------------------------------------------------------------------------
(* Messages and results: sockets are closed when their owners ask for it   *)

\* Sockets are closed or half-closed only, and among them id only.
Calm(id) ==
  /\ PoolOK(pool') /\ pool'.id = pool.id
  /\ \A w \in Nat : Slot(pool', w).id = Slot(pool, w).id
  /\ Watched' \subseteq Watched /\ Watched \ {id} \subseteq Watched'
  /\ \A w \in Watched' : /\ Slot(pool', w).wb = Slot(pool, w).wb
                         /\ Slot(pool', w).listen = Slot(pool, w).listen
                         /\ Slot(pool, w).status = "halfclose" => Slot(pool', w).status = "halfclose"
                         /\ w # id => Slot(pool', w).status = Slot(pool, w).status

\* lclose half-closes a socket that has still something to send.
LEMMA CloseCalm ==
  ASSUME Live, NEW id \in Opened, pool' = lclose(pool, id)
  PROVE  Calm(id) /\ (id \in Watched' => Slot(pool', id).status = "halfclose")
<1>1. PoolOK(pool) /\ Watched = DOMAIN pool.ev /\ id \in Nat /\ Watched \subseteq Nat
  BY Typed
<1>2. CASE id \notin Watched
  <2>1. pool' = pool
    BY <1>1, <1>2, CloseUnwatched
  <2> QED BY <1>1, <1>2, <2>1 DEF Calm, Watched
<1>3. CASE id \in Watched
  <2>1. /\ OthersKept(pool, pool', id)
        /\ \/ Watched' = Watched \ {id}
           \/ /\ Watched' = Watched
              /\ Slot(pool', id) = [Slot(pool, id) EXCEPT !.status = "halfclose"]
    BY <1>1, <1>3, CloseOf DEF Watched
  <2>2. /\ PoolOK(pool') /\ pool'.id = pool.id
        /\ \A w \in Nat : Slot(pool', w).id = Slot(pool, w).id
        /\ \A w \in Watched \ {id} : Slot(pool', w) = Slot(pool, w)
    BY <1>1, <2>1 DEF OthersKept
  <2>3. id \in Watched' => /\ Slot(pool', id).wb = Slot(pool, id).wb
                           /\ Slot(pool', id).listen = Slot(pool, id).listen
                           /\ Slot(pool', id).status = "halfclose"
    <3> SUFFICES ASSUME id \in Watched' PROVE id \in Watched' => /\ Slot(pool', id).wb = Slot(pool, id).wb
                           /\ Slot(pool', id).listen = Slot(pool, id).listen
                           /\ Slot(pool', id).status = "halfclose"
      OBVIOUS
    <3> DEFINE s == Slot(pool, id)
    <3>1. s = [id |-> s.id, status |-> s.status, listen |-> s.listen, wb |-> s.wb]
      BY <1>1, <1>3, SlotFound, SlotFields
    <3> HIDE DEF s
    <3>2. [s EXCEPT !.status = "halfclose"].wb = s.wb /\ [s EXCEPT !.status = "halfclose"].listen = s.listen
          /\ [s EXCEPT !.status = "halfclose"].status = "halfclose"
      BY <3>1
    <3>3. Slot(pool', id) = [s EXCEPT !.status = "halfclose"]
      BY <2>1 DEF s
    <3> QED BY <3>2, <3>3 DEF s
  <2>4. Watched' \subseteq Watched /\ Watched \ {id} \subseteq Watched'
    BY <2>1
  <2> QED BY <2>2, <2>3, <2>4 DEF Calm
<1> QED BY <1>2, <1>3

\* The pool is calm while it does not change.
LEMMA StillCalm ==
  ASSUME Live, NEW id, UNCHANGED pool
  PROVE  Calm(id) /\ Watched' = Watched
BY Typed DEF Calm, Watched

\* What ends main, while it handles a result of the socket fd.
Ends(fd) ==
  /\ result # <<>> /\ Head(result).fd = fd /\ fd \in Opened /\ conn[fd].told = "yes"
  /\ alive # Cell /\ fd \notin Watched
  /\ \E i \in DOMAIN result : result[i].new \in Opened /\ result[i].new > fd

\* When main is dead, the socket that killed it has been closed, and its slot reused.
LEMMA EndsOf ==
  ASSUME Live, phase = "dead"
  PROVE  \E fd \in Opened : Ends(fd) /\ Owner(fd) = Nobody
<1>1. PICK fd : fd = Head(result).fd
  OBVIOUS
<1>2. result # <<>> /\ conn[fd].told = "yes"
  BY <1>1 DEF Live, Rounds
<1>3. Head(result) = result[1] /\ 1 \in DOMAIN result
  BY <1>2, Typed, EmptySeq
<1>4. fd \in Opened
  BY <1>1, <1>3, Typed
<1>5. /\ Owner(fd) = Nobody /\ alive # Cell /\ fd \notin Watched
      /\ \E i \in DOMAIN result : result[i].new \in Opened /\ result[i].new > fd
  BY <1>1 DEF Live, MainDiesOfReuse
<1> QED BY <1>1, <1>2, <1>4, <1>5 DEF Ends

\* Main is not in its round afterwards: a message about id has been served, or id
\* is the socket whose close ends main.  Its history is x and its owner v then.
LEMMA ServedKeeps ==
  ASSUME Live, NEW id \in Opened, NEW x \in ConnType, NEW v \in V,
         conn' = [conn EXCEPT ![id] = x], SocketsSet(id, v), Calm(id),
         x.got = conn[id].got, x.out = conn[id].out, x.written = conn[id].written,
         x.told \in {conn[id].told, "yes"}, v \in Cell => x.told = "yes",
         v = Nobody /\ x.told = "forward" => x.left = "asked",
         \/ x.left = "asked"
         \/ /\ Watched' = Watched /\ x.left = conn[id].left
            /\ id \in Watched => Slot(pool', id).status = Slot(pool, id).status,
         id \in Watched' => v # Nobody \/ Slot(pool', id).status = "halfclose",
         v # Nobody /\ x.left # "asked" => x.given \o InTable(id)' \o InResult(id) = x.got,
         \A i \in DOMAIN result : Announced(i) => result[i].new # id,
         ready' = {}, event' = NoEvent, UNCHANGED <<alive, result>>,
         phase' \in {"sleep", "dead"}, phase' = "sleep" => result = <<>>,
         phase' = "dead" =>
           \E fd \in Opened : Ends(fd) /\ (IF fd = id THEN v = Nobody ELSE Owner(fd) = Nobody)
  PROVE  Live'
<1>2. /\ PoolOK(pool) /\ Watched = DOMAIN pool.ev /\ Watched \subseteq Opened
      /\ Opened \subseteq Nat \ {0} /\ Nobody \notin Opened /\ id \in Nat /\ id \in Opened
      /\ DOMAIN sockets \subseteq Opened
      /\ \A i \in DOMAIN result : result[i].fd \in Opened /\ result[i].new \in Opened \union {Nobody}
  BY Typed, OwnerTypes
<1>3. /\ Opened' = Opened /\ conn' \in [Opened' -> ConnType]
      /\ conn'[id] = x /\ \A w \in Opened \ {id} : conn'[w] = conn[w]
  BY <1>2, ConnSet
<1>4. /\ DOMAIN sockets' = DOMAIN sockets \union {id}
      /\ sockets' \in [DOMAIN sockets' -> V]
      /\ Owner(id)' = v /\ \A w \in Opened \ {id} : Owner(w)' = Owner(w)
  BY <1>2 DEF SocketsSet
<1>6. /\ PoolOK(pool') /\ pool'.id = pool.id
      /\ Watched' \subseteq Watched /\ Watched \ {id} \subseteq Watched'
      /\ \A w \in Watched' : /\ Slot(pool', w).wb = Slot(pool, w).wb
                             /\ Slot(pool', w).listen = Slot(pool, w).listen
                             /\ w # id => Slot(pool', w).status = Slot(pool, w).status
  BY DEF Calm
<1>11. /\ \A w : InResult(w)' = InResult(w)
       /\ \A w \in Opened \ {id} : InTable(w)' = InTable(w)
  <2>1. ASSUME NEW w \in Opened \ {id} PROVE InTable(w)' = InTable(w)
    <3>1. Owner(w)' = Owner(w)
      BY <1>4
    <3>2. Kept(w)' = Kept(w)
      BY <3>1 DEF Kept
    <3>3. Kept(w) => sockets'[w] = sockets[w]
      <4>1. Kept(w) => Owner(w) # Nobody
        BY DEF Kept
      <4> QED BY <3>1, <4>1 DEF Owner
    <3> QED BY <3>2, <3>3 DEF InTable
  <2> QED BY <2>1, ResultSame
<1>12. /\ Rounds /\ Owners /\ Fresh /\ WritesInOrder
       /\ OwnerGetsAll /\ ClosedIsHeard /\ NoOrphan /\ Types
  BY DEF Live
<1>13. result # <<>> => alive # Cell
  BY DEF Ends
<1>14. /\ event'.id = 0 /\ event'.read = FALSE /\ event'.write = FALSE /\ event' \in EventType
  BY NoEventIs
<1>20. Types'
  <2>1. ResultType' = ResultType /\ EventType' = EventType
    BY <1>3 DEF ResultType, EventType
  <2>2. Watched' \subseteq Opened' /\ Opened' \subseteq 1 .. pool'.id - 1
    BY <1>2, <1>3, <1>6, <1>12 DEF Types
  <2>3. /\ DOMAIN sockets' \subseteq Opened'
        /\ sockets' \in [DOMAIN sockets' -> Cell \union {Nobody} \union Table]
    BY <1>2, <1>3, <1>4 DEF V
  <2> QED BY <1>3, <1>12, <1>14, <2>1, <2>2, <2>3 DEF Types
<1>21. Polling'
  BY <1>14 DEF Polling
<1>22. WritesInOrder'
  <2>1. ASSUME NEW w \in Opened
        PROVE  /\ conn'[w].out = Upto(Len(conn'[w].out))
               /\ w \in Watched' =>
                    conn'[w].out \o FlattenSeq(Slot(pool', w).wb) = Upto(conn'[w].written)
    <3>1. conn'[w].out = conn[w].out /\ conn'[w].written = conn[w].written
      BY <1>3
    <3>2. w \in Watched' => w \in Watched /\ Slot(pool', w).wb = Slot(pool, w).wb
      BY <1>6
    <3> QED BY <1>12, <3>1, <3>2 DEF WritesInOrder
  <2> QED BY <1>3, <2>1 DEF WritesInOrder
<1>23. OwnerGetsAll'
  <2>1. ASSUME NEW w \in Opened, Owner(w)' # Nobody, conn'[w].left # "asked"
        PROVE  conn'[w].given \o InTable(w)' \o InResult(w)' = conn'[w].got
    <3>1. CASE w = id
      BY <1>3, <1>4, <1>11, <2>1, <3>1
    <3>2. CASE w # id
      <4>1. Owner(w) # Nobody /\ conn'[w] = conn[w]
        BY <1>3, <1>4, <2>1, <3>2
      <4>2. conn[w].given \o InTable(w) \o InResult(w) = conn[w].got
        BY <1>12, <2>1, <4>1 DEF OwnerGetsAll
      <4> QED BY <1>11, <3>2, <4>1, <4>2
    <3> QED BY <3>1, <3>2
  <2> QED BY <1>3, <2>1 DEF OwnerGetsAll
<1>24. ClosedIsHeard'
  <2>1. ASSUME NEW w \in Opened' \ Watched', conn'[w].left = "no"
        PROVE  w \in Opened \ Watched /\ conn[w].left = "no" /\ conn'[w].got = conn[w].got
    <3>1. CASE w = id
      BY <1>3, <2>1, <3>1
    <3>2. CASE w # id
      BY <1>3, <1>6, <2>1, <3>2
    <3> QED BY <3>1, <3>2
  <2> QED BY <1>12, <2>1 DEF ClosedIsHeard
<1>25. NoOrphan'
  <2>1. ASSUME NEW w \in Watched'
        PROVE  \/ Owner(w)' # Nobody
               \/ Slot(pool', w).status = "halfclose"
               \/ \E i \in DOMAIN result' : result'[i].new = w
               \/ conn'[w].left = "orphan" /\ alive' # Cell
    <3>1. CASE w = id
      BY <1>4, <2>1, <3>1
    <3>2. CASE w # id
      BY <1>2, <1>3, <1>4, <1>6, <1>12, <2>1, <3>2 DEF NoOrphan
    <3> QED BY <3>1, <3>2
  <2> QED BY <2>1 DEF NoOrphan
<1>26. MainDiesOfReuse' /\ (phase' = "dead" => result' # <<>> /\ conn'[Head(result').fd].told = "yes")
  <2> SUFFICES ASSUME phase' = "dead"
               PROVE  MainDiesOfReuse' /\ result' # <<>> /\ conn'[Head(result').fd].told = "yes"
    BY DEF MainDiesOfReuse
  <2>1. PICK fd \in Opened : Ends(fd) /\ (IF fd = id THEN v = Nobody ELSE Owner(fd) = Nobody)
    OBVIOUS
  <2>2. /\ result # <<>> /\ Head(result).fd = fd /\ conn[fd].told = "yes"
        /\ alive # Cell /\ fd \notin Watched
        /\ \E i \in DOMAIN result : result[i].new \in Opened /\ result[i].new > fd
    BY <2>1 DEF Ends
  <2>3. Owner(fd)' = Nobody /\ conn'[fd].told = "yes" /\ fd \notin Watched'
    BY <1>3, <1>4, <1>6, <2>1, <2>2
  <2>4. Head(result').fd = fd
    BY <2>2
  <2>5. MainDiesOfReuse'
    BY <1>3, <2>2, <2>3, <2>4 DEF MainDiesOfReuse
  <2> QED BY <2>2, <2>3, <2>4, <2>5
<1>27. Rounds'
  <2>1. Cap(pool') # 0
    BY <1>6 DEF PoolOK, PoolTypes
  <2> QED BY <1>14, <1>26, <2>1 DEF Rounds, Known
<1>28. Owners'
  <2>1. ASSUME NEW w \in Opened
        PROVE  /\ Owner(w)' \in Cell => conn'[w].told = "yes"
               /\ conn'[w].told = "forward" =>
                    w \in DOMAIN sockets' /\ (Owner(w)' = Nobody => conn'[w].left = "asked")
               /\ w \in Watched' =>
                    /\ Slot(pool', w).status = "halfclose" => conn'[w].left = "asked"
                    /\ Slot(pool', w).listen => Slot(pool', w).wb = <<>>
    <3>1. w \in Watched' => /\ w \in Watched
                            /\ Slot(pool', w).listen = Slot(pool, w).listen
                            /\ Slot(pool', w).wb = Slot(pool, w).wb
                            /\ w # id => Slot(pool', w).status = Slot(pool, w).status
      BY <1>6
    <3>2. CASE w = id
      <4>1. w \in Watched' /\ Slot(pool', w).status = "halfclose" => conn'[w].left = "asked"
        BY <1>3, <1>12, <3>1, <3>2 DEF Owners
      <4>2. w \in Watched' => (Slot(pool', w).listen => Slot(pool', w).wb = <<>>)
        BY <1>12, <3>1 DEF Owners, Listening
      <4> QED BY <1>3, <1>4, <3>2, <4>1, <4>2
    <3>3. CASE w # id
      <4>1. conn'[w] = conn[w] /\ Owner(w)' = Owner(w) /\ (w \in DOMAIN sockets => w \in DOMAIN sockets')
        BY <1>3, <1>4, <3>3
      <4> QED BY <1>12, <3>1, <3>3, <4>1 DEF Owners, Listening
    <3> QED BY <3>2, <3>3
  <2> QED BY <1>3, <2>1 DEF Owners, Listening
<1>29. Fresh'
  <2> SUFFICES ASSUME NEW i \in DOMAIN result', Announced(i)'
               PROVE  Unheard(i, result[i].new)'
    BY DEF Fresh
  <2>1. i \in DOMAIN result /\ Announced(i)
    BY DEF Announced
  <2>2. PICK u : u = result[i].new
    OBVIOUS
  <2>3. Unheard(i, u)
    BY <1>12, <2>1, <2>2 DEF Fresh
  <2>4. u # id /\ u # Nobody /\ u \in Opened /\ u # 0
    <3>1. u # Nobody /\ u \in Opened \union {Nobody}
      BY <1>2, <2>1, <2>2 DEF Announced
    <3> QED BY <1>2, <2>1, <2>2, <3>1
  <2>5. \A j \in DOMAIN result' : result'[j].fd # u /\ (result'[j].new = u => j = i)
    BY <2>3 DEF Unheard
  <2>6. u \notin ready' \union {event'.id}
    BY <1>14, <2>4
  <2>7. conn'[u] = NewConn("no") /\ u \notin DOMAIN sockets' /\ u \in Watched' /\ ~Slot(pool', u).listen
    BY <1>3, <1>4, <1>6, <2>3, <2>4 DEF Unheard, Listening
  <2>8. alive' # Cell
    <3>1. DOMAIN <<>> = {}
      OBVIOUS
    <3>2. result # <<>>
      BY <2>1, <3>1
    <3> QED BY <1>13, <3>2
  <2>9. u = result'[i].new
    BY <2>2
  <2>10. Unheard(i, u)'
    BY <2>5, <2>6, <2>7, <2>8 DEF Unheard, Listening
  <2> QED BY <2>9, <2>10
<1>30. ReusedLater'
  BY DEF ReusedLater
<1> QED BY <1>6, <1>20, <1>21, <1>22, <1>23, <1>24, <1>25, <1>26, <1>27, <1>28, <1>29, <1>30 DEF Live

\* The history of a socket, once some of what it says of the owner is set.
Left(id, x, l) ==
  /\ x \in ConnType /\ x.got = conn[id].got /\ x.out = conn[id].out
  /\ x.written = conn[id].written /\ x.left = l

\* Only why a socket was left changes in its history.
LEMMA LeftSet ==
  ASSUME Live, NEW id \in Opened, NEW l \in {"no", "asked", "failed", "orphan"},
         conn' = [conn EXCEPT ![id].left = l]
  PROVE  \E x : /\ Left(id, x, l) /\ conn' = [conn EXCEPT ![id] = x]
                /\ x.given = conn[id].given /\ x.told = conn[id].told
<1> DEFINE c == conn[id]
           x == Conn(c.got, c.given, c.out, c.written, c.told, l)
<1>1. c \in ConnType
  BY Typed
<1>2. /\ c.got \in Seq(Byte) /\ c.given \in Seq(Byte) /\ c.out \in Seq(Nat)
      /\ c.written \in Nat /\ c.told \in {"no", "yes", "forward"}
  BY <1>1, ConnFields
<1> HIDE DEF c
<1>3. [c EXCEPT !.left = l] = x
  BY <1>1, ConnChanges
<1>4. /\ x \in ConnType /\ x.got = c.got /\ x.given = c.given /\ x.out = c.out
      /\ x.written = c.written /\ x.told = c.told /\ x.left = l
  BY <1>2 DEF Conn, ConnType
<1> HIDE DEF x
<1>5. conn' = [conn EXCEPT ![id] = [c EXCEPT !.left = l]]
  BY DEF c
<1>6. conn' = [conn EXCEPT ![id] = x]
  BY <1>3, <1>5
<1> QED BY <1>4, <1>6 DEF c, Left

\* The history x of a socket once b was passed on, however the step writes it.
GivenTo(id, x, b, t, l) ==
  /\ Left(id, x, l) /\ x.given = conn[id].given \o b /\ x.told = t
  /\ t = conn[id].told /\ l = conn[id].left =>
       [conn EXCEPT ![id].given = @ \o b] = [conn EXCEPT ![id] = x]
  /\ l = conn[id].left =>
       [conn EXCEPT ![id].told = t, ![id].given = @ \o b] = [conn EXCEPT ![id] = x]
  /\ [[conn EXCEPT ![id].told = t, ![id].given = @ \o b] EXCEPT ![id].left = l]
       = [conn EXCEPT ![id] = x]

\* What was passed on, who knows and why it was left change in a history.
LEMMA GivenSet ==
  ASSUME Live, NEW id \in Opened, NEW b \in Seq(Byte), NEW t \in {"no", "yes", "forward"},
         NEW l \in {"no", "asked", "failed", "orphan"}
  PROVE  \E x : GivenTo(id, x, b, t, l)
<1> DEFINE c == conn[id]
           g == c.given \o b
           x == Conn(c.got, g, c.out, c.written, t, l)
<1>1. c \in ConnType /\ id \in DOMAIN conn
  BY Typed DEF Opened
<1>2. /\ c = Conn(c.got, c.given, c.out, c.written, c.told, c.left)
      /\ c.got \in Seq(Byte) /\ c.given \in Seq(Byte) /\ c.out \in Seq(Nat)
      /\ c.written \in Nat
  BY <1>1, ConnFields
<1>3. g \in Seq(Byte)
  BY <1>2, ConcatProperties
<1>4. /\ x \in ConnType /\ x.got = c.got /\ x.given = g /\ x.out = c.out
      /\ x.written = c.written /\ x.told = t /\ x.left = l
  <2> HIDE DEF c, g
  <2> QED BY <1>2, <1>3 DEF Conn, ConnType
<1> DEFINE d == [c EXCEPT !.told = t]
           e == [d EXCEPT !.given = g]
           f == [c EXCEPT !.given = g]
<1>5. /\ f = Conn(c.got, g, c.out, c.written, c.told, c.left)
      /\ e = Conn(c.got, g, c.out, c.written, t, c.left)
      /\ [e EXCEPT !.left = l] = x
  <2>1. PICK a1, a2, a3, a4, a5, a6, h :
          /\ c = Conn(a1, a2, a3, a4, a5, a6) /\ a1 = c.got /\ a3 = c.out
          /\ a4 = c.written /\ a6 = c.left /\ a5 = c.told /\ h = g
    <3> HIDE DEF c, g
    <3> QED BY <1>2
  <2> DEFINE k == Conn(a1, a2, a3, a4, a5, a6)
           k2 == Conn(a1, a2, a3, a4, t, a6)
           k3 == Conn(a1, h, a3, a4, t, a6)
  <2>2. /\ [k EXCEPT !.given = h] = Conn(a1, h, a3, a4, a5, a6)
        /\ [[k EXCEPT !.told = t] EXCEPT !.given = h] = k3
        /\ [[[k EXCEPT !.told = t] EXCEPT !.given = h] EXCEPT !.left = l] = Conn(a1, h, a3, a4, t, l)
    <3>1. [k EXCEPT !.given = h] = Conn(a1, h, a3, a4, a5, a6)
      BY DEF Conn
    <3>2. [k EXCEPT !.told = t] = k2
      BY DEF Conn
    <3>3. [k2 EXCEPT !.given = h] = k3
      BY DEF Conn
    <3>4. [k3 EXCEPT !.left = l] = Conn(a1, h, a3, a4, t, l)
      BY DEF Conn
    <3> HIDE DEF k, k2, k3
    <3> QED BY <3>1, <3>2, <3>3, <3>4
  <2> HIDE DEF k, k3, c, g
  <2>3. c = k /\ k3 = Conn(a1, h, a3, a4, t, a6)
    BY <2>1 DEF k, k3
  <2> QED BY <2>1, <2>2, <2>3
<1> DEFINE To == [conn EXCEPT ![id].told = t, ![id].given = @ \o b]
<1>6. /\ [conn EXCEPT ![id].given = @ \o b] = [conn EXCEPT ![id] = f]
      /\ To = [conn EXCEPT ![id] = e]
  OBVIOUS
<1>7. [To EXCEPT ![id].left = l] = [conn EXCEPT ![id] = [e EXCEPT !.left = l]]
  <2> HIDE DEF e, To
  <2>1. To = [conn EXCEPT ![id] = e]
    BY <1>6
  <2>2. [[conn EXCEPT ![id] = e] EXCEPT ![id].left = l] = [conn EXCEPT ![id] = [e EXCEPT !.left = l]]
    BY <1>1
  <2> QED BY <2>1, <2>2
<1> HIDE DEF g
<1>8. /\ t = c.told /\ l = c.left => f = x
      /\ l = c.left => e = x
  <2> HIDE DEF c, e, f
  <2> QED BY <1>5
<1> HIDE DEF e, f, x, To
<1>9. /\ Left(id, x, l) /\ x.given = conn[id].given \o b /\ x.told = t
      /\ t = conn[id].told /\ l = conn[id].left =>
           [conn EXCEPT ![id].given = @ \o b] = [conn EXCEPT ![id] = x]
      /\ l = conn[id].left => To = [conn EXCEPT ![id] = x]
      /\ [To EXCEPT ![id].left = l] = [conn EXCEPT ![id] = x]
  <2>1. Left(id, x, l) /\ x.given = conn[id].given \o b /\ x.told = t
    BY <1>4 DEF Left, g
  <2>2. t = conn[id].told /\ l = conn[id].left =>
           [conn EXCEPT ![id].given = @ \o b] = [conn EXCEPT ![id] = x]
    BY <1>6, <1>8
  <2>3. l = conn[id].left => To = [conn EXCEPT ![id] = x]
    BY <1>6, <1>8
  <2>4. [To EXCEPT ![id].left = l] = [conn EXCEPT ![id] = x]
    BY <1>5, <1>7
  <2> QED BY <2>1, <2>2, <2>3, <2>4
<1> QED BY <1>9 DEF To, GivenTo

\* Disconnect keeps the invariant: the owner has asked for it, and bytes still in the buffers
\* are sent before the socket is closed.
LEMMA DisconnectKeeps ==
  ASSUME Live, NEW id \in Opened, Disconnect(id)
  PROVE  Live'
<1>1. /\ Dispatching /\ Known(id) /\ Owner(id) # Nobody
      /\ sockets' = [sockets EXCEPT ![id] = Nobody]
      /\ conn' = [conn EXCEPT ![id].left = "asked"]
      /\ pool' = lclose(pool, id)
      /\ UNCHANGED <<alive, phase, ready, event, result>>
  BY DEF Disconnect, Forget, Asked, Served
<1>2. PICK x : /\ Left(id, x, "asked") /\ conn' = [conn EXCEPT ![id] = x]
               /\ x.given = conn[id].given /\ x.told = conn[id].told
  BY <1>1, LeftSet
<1>3. SocketsSet(id, Nobody) /\ Nobody \in V /\ Nobody \notin Cell
  BY <1>1, OwnerChanged, OwnerTypes
<1>4. Calm(id) /\ (id \in Watched' => Slot(pool', id).status = "halfclose")
  BY <1>1, CloseCalm
<1>5. \A i \in DOMAIN result : Announced(i) => result[i].new # id
  BY <1>1, KnownIs
<1>6. ready' = {} /\ event' = NoEvent
  BY <1>1, WhenDispatching
<1>7. phase' \in {"sleep", "dead"} /\ (phase' = "sleep" => result = <<>>)
  BY <1>1 DEF Dispatching, Live, Rounds
<1>8. phase' = "dead" =>
        \E fd \in Opened : Ends(fd) /\ (IF fd = id THEN Nobody = Nobody ELSE Owner(fd) = Nobody)
  BY <1>1, EndsOf
<1>9. /\ x \in ConnType /\ x.got = conn[id].got /\ x.out = conn[id].out
      /\ x.written = conn[id].written /\ x.left = "asked"
  BY <1>2 DEF Left
<1> QED BY <1>1, <1>2, <1>3, <1>4, <1>5, <1>6, <1>7, <1>8, <1>9, ServedKeeps

\* The data that the new owner is sent.
LEMMA ForwardKeeps ==
  ASSUME Live, NEW id \in Opened, NEW c \in Client, Forward(id, c)
  PROVE  Live'
<1> DEFINE data == IF Kept(id) THEN sockets[id] ELSE <<>>
           F(k) == FlattenSeq(SubSeq(data, 1, k))
<1>1. /\ Dispatching /\ conn[id].told = "forward"
      /\ UNCHANGED <<alive, phase, ready, event, result>>
  BY DEF Forward, Forwardable, Served
<1>2. Known(id) /\ c \in Cell
  BY <1>1 DEF Known, Cell
<1>3. id \in DOMAIN sockets /\ (Owner(id) = Nobody => conn[id].left = "asked") /\ Owner(id) \notin Cell
  BY <1>1 DEF Live, Owners
<1>4. data \in Seq(Seq(Byte)) /\ InTable(id) = FlattenSeq(data)
  <2>1. CASE Kept(id)
    BY <2>1, OwnerTypes DEF Table, InTable
  <2>2. CASE ~Kept(id)
    BY <2>2, OwnerTypes, FlattenEmpty DEF Table, InTable
  <2> QED BY <2>1, <2>2
<1>5. ASSUME NEW k \in 0 .. Len(data) PROVE F(k) \in Seq(Byte)
  <2> DEFINE S == Seq(Byte)
  <2> HIDE DEF data, S
  <2>1. SubSeq(data, 1, k) \in Seq(S)
    BY <1>4, <1>5, Halves DEF S
  <2> QED BY <2>1, FlattenType DEF S
<1>6. F(Len(data)) = InTable(id) /\ Len(data) \in Nat
  <2> DEFINE S == Seq(Byte)
  <2> HIDE DEF data, S
  <2>1. data \in Seq(S) /\ Len(data) \in Nat
    BY <1>4, LenProperties DEF S
  <2>2. Len(data) \in 0 .. Len(data)
    BY <2>1
  <2>3. SubSeq(data, 1, Len(data)) = data
    BY <2>1, <2>2, Halves
  <2> QED BY <1>4, <2>1, <2>3
<1>7. \A i \in DOMAIN result : Announced(i) => result[i].new # id
  BY <1>2, KnownIs
<1>8. ready' = {} /\ event' = NoEvent
  BY <1>1, WhenDispatching
<1>9. phase' \in {"sleep", "dead"} /\ (phase' = "sleep" => result = <<>>)
  BY <1>1 DEF Dispatching, Live, Rounds
<1>10. phase' = "dead" => \E fd \in Opened : Ends(fd) /\ Owner(fd) = Nobody /\ fd # id
  BY <1>1, EndsOf DEF Ends
<1>11. conn[id].left \in {"no", "asked", "failed", "orphan"} /\ conn[id].given \in Seq(Byte)
  BY Typed, ConnFields
<1> HIDE DEF F
<1>12. CASE /\ sockets' = [sockets EXCEPT ![id] = c]
            /\ conn' = [conn EXCEPT ![id].told = "yes", ![id].given = @ \o F(Len(data))]
            /\ UNCHANGED pool
  <2>1. PICK b : b = InTable(id) /\ b \in Seq(Byte)
    BY InTypes
  <2>2. conn' = [conn EXCEPT ![id].told = "yes", ![id].given = @ \o b]
    BY <1>6, <1>12, <2>1
  <2>3. PICK x : /\ Left(id, x, conn[id].left) /\ x.given = conn[id].given \o b /\ x.told = "yes"
                 /\ conn' = [conn EXCEPT ![id] = x]
    <3>1. \E x : GivenTo(id, x, b, "yes", conn[id].left)
      BY <1>11, <2>1, GivenSet
    <3> QED BY <2>2, <3>1 DEF GivenTo
  <2>4. SocketsSet(id, c) /\ c \in V /\ c # Nobody
    BY <1>2, <1>3, <1>12, OwnerChanged, OwnerTypes
  <2>5. Calm(id) /\ Watched' = Watched
    BY <1>12, StillCalm
  <2>6. /\ x \in ConnType /\ x.got = conn[id].got /\ x.out = conn[id].out
        /\ x.written = conn[id].written /\ x.left = conn[id].left
    BY <2>3 DEF Left
  <2>7. c # Nobody /\ x.left # "asked" => x.given \o InTable(id)' \o InResult(id) = x.got
    <3> SUFFICES ASSUME x.left # "asked" PROVE x.given \o InTable(id)' \o InResult(id) = x.got
      OBVIOUS
    <3>1. conn[id].given \o InTable(id) \o InResult(id) = conn[id].got
      BY <1>3, <2>6 DEF Live, OwnerGetsAll
    <3>2. InTable(id)' = <<>>
      BY <1>2, <2>4 DEF SocketsSet, InTable, Kept
    <3>3. x.given \in Seq(Byte)
      BY <2>6, ConnFields
    <3>4. x.given \o <<>> = x.given
      BY <3>3, ConcatEmptySeq
    <3> QED BY <2>1, <2>3, <2>6, <3>1, <3>2, <3>4
  <2>8. id \in Watched => Slot(pool', id).status = Slot(pool, id).status
    BY <1>12
  <2>9. phase' = "dead" =>
          \E fd \in Opened : Ends(fd) /\ (IF fd = id THEN c = Nobody ELSE Owner(fd) = Nobody)
    BY <1>10
  <2> QED BY <1>1, <1>7, <1>8, <1>9, <2>3, <2>4, <2>5, <2>6, <2>7, <2>8, <2>9, ServedKeeps
<1>13. CASE /\ \E k \in 0 .. Len(data) - 1 :
                 conn' = [[conn EXCEPT ![id].told = "yes", ![id].given = @ \o F(k)]
                            EXCEPT ![id].left = "asked"]
            /\ sockets' = [sockets EXCEPT ![id] = Nobody]
            /\ pool' = lclose(pool, id)
  <2>1. PICK k \in 0 .. Len(data) - 1 :
                 conn' = [[conn EXCEPT ![id].told = "yes", ![id].given = @ \o F(k)]
                            EXCEPT ![id].left = "asked"]
    BY <1>13
  <2>2. k \in 0 .. Len(data)
    <3> HIDE DEF data
    <3> QED BY <1>6
  <2>3. PICK b \in Seq(Byte) : b = F(k)
    BY <1>5, <2>2 DEF F
  <2>4. conn' = [[conn EXCEPT ![id].told = "yes", ![id].given = @ \o b] EXCEPT ![id].left = "asked"]
    BY <2>1, <2>3
  <2>5. PICK x : /\ Left(id, x, "asked") /\ x.given = conn[id].given \o b /\ x.told = "yes"
                 /\ conn' = [conn EXCEPT ![id] = x]
    <3>1. \E x : GivenTo(id, x, b, "yes", "asked")
      BY GivenSet
    <3> QED BY <2>4, <3>1 DEF GivenTo
  <2>6. SocketsSet(id, Nobody) /\ Nobody \in V /\ Nobody \notin Cell
    BY <1>3, <1>13, OwnerChanged, OwnerTypes
  <2>7. Calm(id) /\ (id \in Watched' => Slot(pool', id).status = "halfclose")
    BY <1>13, CloseCalm
  <2>8. /\ x \in ConnType /\ x.got = conn[id].got /\ x.out = conn[id].out
        /\ x.written = conn[id].written /\ x.left = "asked"
    BY <2>5 DEF Left
  <2>9. phase' = "dead" =>
          \E fd \in Opened : Ends(fd) /\ (IF fd = id THEN Nobody = Nobody ELSE Owner(fd) = Nobody)
    BY <1>10
  <2> QED BY <1>1, <1>7, <1>8, <1>9, <2>5, <2>6, <2>7, <2>8, <2>9, ServedKeeps
<1> QED BY <1>12, <1>13 DEF Forward, Forget, F

\* The close of a socket whose slot is another's ends main.
LEMMA MainEnds ==
  ASSUME Live, GiveDead, CloseFails(pool, Head(result).fd)
  PROVE  Live'
<1>1. PICK id : id = Head(result).fd
  OBVIOUS
<1>2. /\ phase = "poll" /\ event = NoEvent /\ result # <<>> /\ Head(result).new = Nobody
      /\ Owner(id) \in Cell \ alive
      /\ sockets' = [sockets EXCEPT ![id] = Nobody]
      /\ conn' = [conn EXCEPT ![id].left = "asked"]
      /\ pool' = lclose(pool, id) /\ Slot(pool, id).id # id
      /\ phase' = "dead" /\ ready' = {} /\ UNCHANGED <<result, alive, event>>
  BY <1>1 DEF GiveDead, Results, Polled, Forget, Asked, CloseFails
<1>3. Head(result) = result[1] /\ 1 \in DOMAIN result
  BY <1>2, Typed, EmptySeq
<1>4. id \in Opened /\ id \in Nat /\ PoolOK(pool) /\ Watched = DOMAIN pool.ev
  BY <1>1, <1>3, Typed
<1>5. PICK x : /\ Left(id, x, "asked") /\ conn' = [conn EXCEPT ![id] = x]
               /\ x.given = conn[id].given /\ x.told = conn[id].told
  BY <1>2, <1>4, LeftSet
<1>6. SocketsSet(id, Nobody) /\ Nobody \in V /\ Nobody \notin Cell
  BY <1>2, OwnerChanged, OwnerTypes
<1>7. Calm(id) /\ (id \in Watched' => Slot(pool', id).status = "halfclose")
  BY <1>2, <1>4, CloseCalm
<1>8. \A i \in DOMAIN result : Announced(i) => result[i].new # id
  BY <1>1, <1>3 DEF Live, Fresh, Unheard
<1>9. Ends(id)
  <2>1. conn[id].told = "yes"
    BY <1>2, <1>4 DEF Live, Owners
  <2>2. id \notin Watched
    BY <1>2, <1>4, SlotFound
  <2>3. \E i \in DOMAIN result : result[i].new \in Opened /\ result[i].new > id
    BY <1>1, <1>2, <1>3 DEF Live, ReusedLater, Announced
  <2> QED BY <1>1, <1>2, <1>4, <2>1, <2>2, <2>3 DEF Ends
<1>10. phase' = "dead" =>
        \E fd \in Opened : Ends(fd) /\ (IF fd = id THEN Nobody = Nobody ELSE Owner(fd) = Nobody)
  BY <1>4, <1>9
<1>11. /\ x \in ConnType /\ x.got = conn[id].got /\ x.out = conn[id].out
      /\ x.written = conn[id].written /\ x.left = "asked"
  BY <1>5 DEF Left
<1>12. ready' = {} /\ event' = NoEvent /\ phase' \in {"sleep", "dead"} /\ phase' # "sleep"
  BY <1>2
<1> QED BY <1>2, <1>4, <1>5, <1>6, <1>7, <1>8, <1>10, <1>11, <1>12, ServedKeeps

-----------------------------------------------------------------------------
(* Main passes on its first result                                         *)

\* What holds of the socket w once it has.
RoundOf(w) ==
  /\ conn'[w].left = "no" => conn[w].left = "no" /\ (w \in Watched => w \in Watched')
  /\ Owner(w)' # Nobody /\ conn'[w].left # "asked" =>
       conn'[w].given \o InTable(w)' \o InResult(w)' = conn'[w].got
  /\ w \in Watched' => \/ Owner(w)' # Nobody
                       \/ Slot(pool', w).status = "halfclose"
                       \/ \E i \in DOMAIN result' : result'[i].new = w
                       \/ conn'[w].left = "orphan" /\ alive # Cell
  /\ Owner(w)' \in Cell => conn'[w].told = "yes"
  /\ conn'[w].told = "forward" =>
       w \in DOMAIN sockets' /\ (Owner(w)' = Nobody => conn'[w].left = "asked")
  /\ w \in Watched' /\ Slot(pool', w).status = "halfclose" => conn'[w].left = "asked"

\* The histories of all sockets but id and new are what they were.
HistoriesElse(id, new) ==
  /\ Opened' = Opened /\ conn' \in [Opened' -> ConnType]
  /\ \A w \in Opened : /\ conn'[w].got = conn[w].got /\ conn'[w].out = conn[w].out
                       /\ conn'[w].written = conn[w].written
  /\ \A w \in Opened \ {id, new} : conn'[w] = conn[w]

\* So are their entries in the table.
Elsewhere(id, new) ==
  /\ HistoriesElse(id, new)
  /\ DOMAIN sockets' \subseteq Opened /\ sockets' \in [DOMAIN sockets' -> V]
  /\ \A w \in Opened \ {id, new} : /\ Owner(w)' = Owner(w) /\ InTable(w)' = InTable(w)
                                   /\ w \in DOMAIN sockets' <=> w \in DOMAIN sockets

\* What is said of a socket that the result passed on was not about stays true.
LEMMA RoundSame ==
  ASSUME Live, ResultGone, NEW w \in Opened, conn'[w] = conn[w], Owner(w)' = Owner(w),
         InTable(w)' = InTable(w), w \in DOMAIN sockets => w \in DOMAIN sockets',
         w \in Watched' <=> w \in Watched,
         w \in Watched => Slot(pool', w).status = Slot(pool, w).status,
         result[1].new # w,
         result[1].fd = w /\ result[1].bytes # <<>> => Owner(w) = Nobody
  PROVE  RoundOf(w)
<1>1. /\ Head(result) = result[1]
      /\ \A i \in DOMAIN result : i = 1 \/ (i - 1 \in DOMAIN result' /\ result'[i - 1] = result[i])
  BY DEF ResultGone
<1>2. Owner(w) # Nobody => InResult(w)' = InResult(w)
  <2> SUFFICES ASSUME Owner(w) # Nobody PROVE InResult(w)' = InResult(w)
    OBVIOUS
  <2>1. InResult(w) = IF result[1].fd = w THEN result[1].bytes \o InResult(w)' ELSE InResult(w)'
    BY <1>1 DEF ResultGone
  <2>2. CASE result[1].fd = w
    <3>1. result[1].bytes = <<>>
      BY <2>2
    <3>2. InResult(w)' \in Seq(Byte)
      <4>1. result' \in Seq(ResultType)
        BY DEF ResultGone
      <4>2. ASSUME NEW r \in ResultType PROVE r \in Entry(Nat \union {Nobody})
        BY Typed, ResultFields DEF Entry
      <4>3. result' \in Seq(Entry(Nat \union {Nobody}))
        BY <4>1, <4>2, SeqMonotonic
      <4>4. InResult(w)' = Gathered(result', w)
        BY DEF InResult, Gathered, Pieces
      <4> QED BY <4>3, <4>4, GatheredType
    <3>3. <<>> \o InResult(w)' = InResult(w)'
      BY <3>2, ConcatEmptySeq
    <3> QED BY <2>1, <2>2, <3>1, <3>3
  <2>3. CASE result[1].fd # w
    BY <2>1, <2>3
  <2> QED BY <2>2, <2>3
<1>3. Owner(w) # Nobody /\ conn[w].left # "asked" =>
        conn[w].given \o InTable(w) \o InResult(w) = conn[w].got
  BY DEF Live, OwnerGetsAll
<1>4. w \in Watched => \/ Owner(w) # Nobody
                       \/ Slot(pool, w).status = "halfclose"
                       \/ \E i \in DOMAIN result' : result'[i].new = w
                       \/ conn[w].left = "orphan" /\ alive # Cell
  <2>1. w \in Watched => \/ Owner(w) # Nobody
                         \/ Slot(pool, w).status = "halfclose"
                         \/ \E i \in DOMAIN result : result[i].new = w
                         \/ conn[w].left = "orphan" /\ alive # Cell
    BY DEF Live, NoOrphan
  <2>2. ASSUME NEW i \in DOMAIN result, result[i].new = w
        PROVE  \E j \in DOMAIN result' : result'[j].new = w
    BY <1>1, <2>2
  <2> QED BY <2>1, <2>2
<1>5. /\ Owner(w) \in Cell => conn[w].told = "yes"
      /\ conn[w].told = "forward" =>
           w \in DOMAIN sockets /\ (Owner(w) = Nobody => conn[w].left = "asked")
      /\ w \in Watched => (Slot(pool, w).status = "halfclose" => conn[w].left = "asked")
  BY DEF Live, Owners
<1> QED BY <1>2, <1>3, <1>4, <1>5 DEF RoundOf

\* A socket whose owner has died is closed.
LEMMA RoundAsked ==
  ASSUME Live, NEW w \in Opened, conn'[w].left = "asked", conn'[w].told = conn[w].told,
         Owner(w)' = Nobody, w \in DOMAIN sockets => w \in DOMAIN sockets',
         w \in Watched' => Slot(pool', w).status = "halfclose"
  PROVE  RoundOf(w)
<1>1. conn[w].told = "forward" => w \in DOMAIN sockets
  BY DEF Live, Owners
<1>2. Nobody \notin Cell
  BY OwnerTypes
<1> QED BY <1>1, <1>2 DEF RoundOf

\* A result is passed on: it is enough to look at its socket and at the connection it announces.
LEMMA RoundKeeps ==
  ASSUME Live, Results, Next1, UNCHANGED <<alive, phase, event>>,
         NEW id, NEW new, id = result[1].fd, new = result[1].new,
         Calm(id), Elsewhere(id, new), RoundOf(id), new # Nobody => RoundOf(new),
         Owner(id)' = Nobody => Owner(id) = Nobody \/ alive # Cell
  PROVE  Live'
<1>1. /\ phase = "poll" /\ event = NoEvent /\ result # <<>>
      /\ result' = Tail(result) /\ ready' = {}
      /\ phase' = "poll" /\ event' = NoEvent /\ alive' = alive
  BY DEF Results, Polled, Next1
<1>2. /\ PoolOK(pool) /\ Watched = DOMAIN pool.ev /\ Watched \subseteq Opened
      /\ Opened \subseteq Nat \ {0} /\ Nobody \notin Opened
      /\ DOMAIN sockets \subseteq Opened
      /\ \A i \in DOMAIN result : result[i].fd \in Opened /\ result[i].new \in Opened \union {Nobody}
  BY Typed, OwnerTypes
<1>3. /\ Opened' = Opened /\ conn' \in [Opened' -> ConnType]
      /\ \A w \in Opened : /\ conn'[w].got = conn[w].got /\ conn'[w].out = conn[w].out
                           /\ conn'[w].written = conn[w].written
      /\ \A w \in Opened \ {id, new} : conn'[w] = conn[w]
  BY DEF Elsewhere, HistoriesElse
<1>4. /\ DOMAIN sockets' \subseteq Opened /\ sockets' \in [DOMAIN sockets' -> V]
      /\ \A w \in Opened \ {id, new} : /\ Owner(w)' = Owner(w) /\ InTable(w)' = InTable(w)
                                       /\ w \in DOMAIN sockets' <=> w \in DOMAIN sockets
  BY DEF Elsewhere
<1>5. ResultGone
  BY <1>1, ResultLess
<1>6. /\ PoolOK(pool') /\ pool'.id = pool.id
      /\ \A w \in Nat : Slot(pool', w).id = Slot(pool, w).id
      /\ Watched' \subseteq Watched /\ Watched \ {id} \subseteq Watched'
      /\ \A w \in Watched' : /\ Slot(pool', w).wb = Slot(pool, w).wb
                             /\ Slot(pool', w).listen = Slot(pool, w).listen
                             /\ w # id => Slot(pool', w).status = Slot(pool, w).status
  BY DEF Calm
<1>7. /\ 1 \in DOMAIN result
      /\ \A i \in DOMAIN result' : i + 1 \in DOMAIN result /\ result'[i] = result[i + 1]
                                   /\ i \in Nat \ {0}
      /\ \A i \in DOMAIN result : i = 1 \/ (i - 1 \in DOMAIN result' /\ result'[i - 1] = result[i])
      /\ \A i \in DOMAIN result : i \in Nat
      /\ result' \in Seq(ResultType)
  <2>1. result' \in Seq(ResultType)
    BY <1>5 DEF ResultGone
  <2>2. DOMAIN result' = 1 .. Len(result') /\ Len(result') \in Nat
    BY <2>1, LenProperties
  <2>3. \A i \in DOMAIN result' : i \in Nat \ {0}
    BY <2>2
  <2> QED BY <1>5, <2>1, <2>3 DEF ResultGone
<1>8. id \in Opened /\ new \in Opened \union {Nobody} /\ id # new
  <2>1. id \in Opened /\ new \in Opened \union {Nobody}
    BY <1>2, <1>7
  <2>2. new # Nobody => id # new
    BY <1>7 DEF Live, Fresh, Unheard, Announced
  <2> QED BY <1>2, <2>1, <2>2
<1>9. ASSUME NEW w \in Opened PROVE RoundOf(w)
  <2>1. CASE w \in {id, new}
    BY <1>2, <1>9, <2>1
  <2>2. CASE w \notin {id, new}
    <3>1. w \in Watched' <=> w \in Watched
      BY <1>6, <2>2
    <3>2. w \in Watched => Slot(pool', w).status = Slot(pool, w).status
      BY <1>6, <2>2, <3>1
    <3> QED BY <1>3, <1>4, <1>5, <2>2, <3>1, <3>2, RoundSame
  <2> QED BY <2>1, <2>2
<1>12. Fresh /\ ReusedLater /\ WritesInOrder /\ ClosedIsHeard /\ Types /\ Owners
  BY DEF Live
<1>14. /\ event'.id = 0 /\ event'.read = FALSE /\ event'.write = FALSE /\ event' \in EventType
  BY <1>1, NoEventIs
<1>20. Types'
  <2>1. ResultType' = ResultType /\ EventType' = EventType
    BY <1>3 DEF ResultType, EventType
  <2>2. Watched' \subseteq Opened' /\ Opened' \subseteq 1 .. pool'.id - 1
    BY <1>2, <1>3, <1>6, <1>12 DEF Types
  <2>3. /\ DOMAIN sockets' \subseteq Opened'
        /\ sockets' \in [DOMAIN sockets' -> Cell \union {Nobody} \union Table]
    BY <1>3, <1>4 DEF V
  <2>4. alive' \subseteq Cell /\ ready' \subseteq Opened'
    BY <1>1, <1>12 DEF Types
  <2>5. phase' \in {"sleep", "poll", "dead"}
    BY <1>1
  <2> QED BY <1>3, <1>7, <1>14, <2>1, <2>2, <2>3, <2>4, <2>5 DEF Types
<1>21. Polling'
  BY <1>1, <1>14 DEF Polling
<1>22. WritesInOrder'
  <2>1. ASSUME NEW w \in Opened
        PROVE  /\ conn'[w].out = Upto(Len(conn'[w].out))
               /\ w \in Watched' =>
                    conn'[w].out \o FlattenSeq(Slot(pool', w).wb) = Upto(conn'[w].written)
    <3>1. conn'[w].out = conn[w].out /\ conn'[w].written = conn[w].written
      BY <1>3
    <3>2. w \in Watched' => w \in Watched /\ Slot(pool', w).wb = Slot(pool, w).wb
      BY <1>6
    <3> QED BY <1>12, <3>1, <3>2 DEF WritesInOrder
  <2> QED BY <1>3, <2>1 DEF WritesInOrder
<1>23. OwnerGetsAll'
  <2>1. \A w \in Opened : Owner(w)' # Nobody /\ conn'[w].left # "asked" =>
          conn'[w].given \o InTable(w)' \o InResult(w)' = conn'[w].got
    BY <1>9 DEF RoundOf
  <2> QED BY <1>3, <2>1 DEF OwnerGetsAll
<1>24. ClosedIsHeard'
  <2>1. ASSUME NEW w \in Opened' \ Watched', conn'[w].left = "no"
        PROVE  w \in Opened \ Watched /\ conn[w].left = "no" /\ conn'[w].got = conn[w].got
    BY <1>3, <1>9, <2>1 DEF RoundOf
  <2> QED BY <1>12, <2>1 DEF ClosedIsHeard
<1>25. NoOrphan'
  <2>1. ASSUME NEW w \in Watched'
        PROVE  \/ Owner(w)' # Nobody
               \/ Slot(pool', w).status = "halfclose"
               \/ \E i \in DOMAIN result' : result'[i].new = w
               \/ conn'[w].left = "orphan" /\ alive' # Cell
    <3>1. w \in Opened
      BY <1>2, <1>6, <2>1
    <3> QED BY <1>1, <1>9, <2>1, <3>1 DEF RoundOf
  <2> QED BY <2>1 DEF NoOrphan
<1>26. MainDiesOfReuse'
  BY <1>1 DEF MainDiesOfReuse
<1>27. Rounds'
  <2>1. Cap(pool') # 0
    BY <1>6 DEF PoolOK, PoolTypes
  <2> QED BY <1>1, <1>14, <2>1 DEF Rounds
<1>28. Owners'
  <2>1. ASSUME NEW w \in Opened
        PROVE  /\ Owner(w)' \in Cell => conn'[w].told = "yes"
               /\ conn'[w].told = "forward" =>
                    w \in DOMAIN sockets' /\ (Owner(w)' = Nobody => conn'[w].left = "asked")
               /\ w \in Watched' =>
                    /\ Slot(pool', w).status = "halfclose" => conn'[w].left = "asked"
                    /\ Slot(pool', w).listen => Slot(pool', w).wb = <<>>
    <3>1. w \in Watched' => (Slot(pool', w).listen => Slot(pool', w).wb = <<>>)
      BY <1>6, <1>12 DEF Owners, Listening
    <3> QED BY <1>9, <3>1 DEF RoundOf
  <2> QED BY <1>3, <2>1 DEF Owners, Listening
<1>29. Fresh'
  <2> SUFFICES ASSUME NEW i \in DOMAIN result', Announced(i)'
               PROVE  Unheard(i, result[i].new)'
    BY DEF Fresh
  <2>1. PICK k, u, m : k = i + 1 /\ k \in DOMAIN result /\ u = result[k].new /\ m = result[k].fd
    BY <1>7
  <2>2. u = result'[i].new /\ m = result'[i].fd /\ Announced(k) /\ k # 1
    BY <1>7, <2>1 DEF Announced
  <2>3. Unheard(k, u)
    BY <1>12, <2>1, <2>2 DEF Fresh
  <2>4. u # id /\ u # new /\ u # Nobody /\ u \in Opened /\ u # 0
    <3>1. u # Nobody /\ u \in Opened \union {Nobody}
      BY <1>2, <2>1, <2>2 DEF Announced
    <3>2. u # id /\ u # new
      BY <1>7, <2>2, <2>3 DEF Unheard
    <3> QED BY <1>2, <3>1, <3>2
  <2>5. \A j \in DOMAIN result' : result'[j].fd # u /\ (result'[j].new = u => j = i)
    <3>1. ASSUME NEW j \in DOMAIN result', result'[j].new = u PROVE j = i
      <4>1. j + 1 = k
        BY <1>7, <2>3, <3>1 DEF Unheard
      <4> QED BY <1>7, <2>1, <4>1
    <3> QED BY <1>7, <2>3, <3>1 DEF Unheard
  <2>6. u \notin ready' \union {event'.id}
    BY <1>1, <1>14, <2>4
  <2>7. conn'[u] = NewConn("no") /\ u \notin DOMAIN sockets' /\ u \in Watched' /\ ~Slot(pool', u).listen
    BY <1>3, <1>4, <1>6, <2>3, <2>4 DEF Unheard, Listening
  <2>8. Owner(m)' # Nobody \/ alive' # Cell
    <3>1. Owner(m) # Nobody \/ alive # Cell
      BY <2>1, <2>3 DEF Unheard
    <3>2. m \in Opened /\ m # new
      <4>1. m \in Opened
        BY <1>2, <2>1
      <4>2. new # Nobody => m # new
        BY <1>7, <1>12, <2>1 DEF Fresh, Unheard, Announced
      <4> QED BY <1>2, <4>1, <4>2
    <3>3. CASE m = id
      BY <1>1, <3>1, <3>3
    <3>4. CASE m # id
      BY <1>1, <1>4, <3>1, <3>2, <3>4
    <3> QED BY <3>3, <3>4
  <2>9. Unheard(i, u)'
    BY <2>2, <2>5, <2>6, <2>7, <2>8 DEF Unheard, Listening
  <2> QED BY <2>2, <2>9
<1>30. ReusedLater'
  <2>1. ASSUME NEW i \in DOMAIN result'
        PROVE  \/ result'[i].new # Nobody
               \/ Slot(pool', result'[i].fd).id = result'[i].fd
               \/ \E j \in DOMAIN result' :
                    j > i /\ result'[j].new \in Opened /\ result'[j].new > result'[i].fd
    <3>1. PICK k, f : k = i + 1 /\ k \in DOMAIN result /\ f = result[k].fd /\ result'[i] = result[k]
      BY <1>7
    <3>2. \/ result[k].new # Nobody
          \/ Slot(pool, f).id = f
          \/ \E j \in DOMAIN result : j > k /\ result[j].new \in Opened /\ result[j].new > f
      BY <1>1, <1>12, <3>1 DEF ReusedLater, Announced
    <3>3. f \in Nat /\ f = result'[i].fd
      BY <1>2, <3>1
    <3>4. ASSUME NEW j \in DOMAIN result, j > k, result[j].new \in Opened, result[j].new > f
          PROVE  \E h \in DOMAIN result' :
                   h > i /\ result'[h].new \in Opened /\ result'[h].new > f
      <4>1. j - 1 \in DOMAIN result' /\ result'[j - 1] = result[j] /\ j - 1 > i
        BY <1>7, <3>1, <3>4
      <4> QED BY <3>4, <4>1
    <3> QED BY <1>6, <3>1, <3>2, <3>3, <3>4
  <2> QED BY <1>3, <2>1 DEF ReusedLater, Announced
<1> QED BY <1>6, <1>20, <1>21, <1>22, <1>23, <1>24, <1>25, <1>26, <1>27, <1>28, <1>29, <1>30 DEF Live

\* The first result, and the connection that it announces.
LEMMA FirstIs ==
  ASSUME Live, Results, NEW id, NEW new, id = Head(result).fd, new = Head(result).new
  PROVE  /\ id = result[1].fd /\ new = result[1].new /\ Head(result) = result[1]
         /\ 1 \in DOMAIN result
         /\ id \in Opened /\ new \in Opened \union {Nobody} /\ id # new /\ Nobody \notin Opened
         /\ result[1].bytes \in Seq(Byte)
         /\ new # Nobody => result[1].bytes = <<>> /\ Unheard(1, new) /\ InResult(new) = <<>>
<1>1. Head(result) = result[1] /\ 1 \in DOMAIN result
  BY Typed, EmptySeq DEF Results
<1>2. /\ result[1].fd \in Opened /\ result[1].new \in Opened \union {Nobody}
      /\ result[1].bytes \in Seq(Byte) /\ Nobody \notin Opened
  BY <1>1, Typed
<1>3. new # Nobody => Unheard(1, new)
  BY <1>1 DEF Live, Fresh, Announced
<1>4. new # Nobody => result[1].bytes = <<>>
  <2>1. result[1] \in ResultType
    BY <1>1, Typed, ElementOfSeq
  <2> QED BY <1>1, <2>1, ResultFields
<1>5. new # Nobody => id # new /\ InResult(new) = <<>>
  <2> SUFFICES ASSUME new # Nobody PROVE id # new /\ InResult(new) = <<>>
    OBVIOUS
  <2>1. \A i \in DOMAIN result : result[i].fd # new
    BY <1>3 DEF Unheard
  <2>2. \A i \in 1 .. Len(result) : result[i].fd # new
    BY <2>1, Typed
  <2>3. Gathered(result, new) = <<>>
    BY <2>2, ResultSeq, GatheredNone
  <2>4. InResult(new) = <<>>
    BY <2>3, InTypes
  <2> QED BY <1>1, <2>1, <2>4
<1> QED BY <1>1, <1>2, <1>3, <1>4, <1>5

\* No sockets but id and new are anybody else's now.
LEMMA ElsewhereOf ==
  ASSUME Live, NEW id \in Opened, NEW new, HistoriesElse(id, new),
         NEW w \in Opened, w \in {id, new}, UNCHANGED sockets \/ \E v : SocketsSet(w, v)
  PROVE  /\ Elsewhere(id, new)
         /\ \A u \in Opened : w # u => Owner(u)' = Owner(u) /\ InTable(u)' = InTable(u)
         /\ \A u \in DOMAIN sockets : u \in DOMAIN sockets'
<1>1. DOMAIN sockets \subseteq Opened /\ sockets \in [DOMAIN sockets -> V]
  BY OwnerTypes DEF Live, Types, V
<1>2. /\ DOMAIN sockets' \subseteq Opened /\ sockets' \in [DOMAIN sockets' -> V]
      /\ \A u \in Opened : w # u => /\ Owner(u)' = Owner(u) /\ InTable(u)' = InTable(u)
                                    /\ u \in DOMAIN sockets' <=> u \in DOMAIN sockets
      /\ \A u \in DOMAIN sockets : u \in DOMAIN sockets'
  <2>1. CASE UNCHANGED sockets
    BY <1>1, <2>1, OwnerSame
  <2>2. ASSUME NEW v, SocketsSet(w, v)
        PROVE  /\ DOMAIN sockets' \subseteq Opened /\ sockets' \in [DOMAIN sockets' -> V]
               /\ \A u \in Opened : w # u => /\ Owner(u)' = Owner(u) /\ InTable(u)' = InTable(u)
                                             /\ u \in DOMAIN sockets' <=> u \in DOMAIN sockets
               /\ \A u \in DOMAIN sockets : u \in DOMAIN sockets'
    <3>1. /\ DOMAIN sockets' = DOMAIN sockets \union {w}
          /\ sockets' \in [DOMAIN sockets' -> V]
          /\ \A u : Owner(u)' = IF u = w THEN v ELSE Owner(u)
      BY <2>2 DEF SocketsSet
    <3>2. ASSUME NEW u \in Opened, w # u PROVE InTable(u)' = InTable(u)
      <4>1. Owner(u)' = Owner(u)
        BY <3>1, <3>2
      <4>2. Kept(u)' = Kept(u)
        BY <4>1 DEF Kept
      <4>3. Kept(u) => sockets'[u] = sockets[u]
        <5>1. Kept(u) => Owner(u) # Nobody
          BY DEF Kept
        <5> QED BY <4>1, <5>1 DEF Owner
      <4> QED BY <4>2, <4>3 DEF InTable
    <3> QED BY <1>1, <3>1, <3>2
  <2> QED BY <2>1, <2>2
<1>3. \A u \in Opened \ {id, new} : w # u
  OBVIOUS
<1> QED BY <1>2, <1>3 DEF Elsewhere

\* The result of a listener: its connection gets a table, or is forgotten.
LEMMA GiveAcceptedKeeps ==
  ASSUME Live, GiveAccepted
  PROVE  Live'
<1>1. PICK id, new : id = Head(result).fd /\ new = Head(result).new
  OBVIOUS
<1>2. Results /\ new # Nobody /\ Next1 /\ UNCHANGED <<alive, phase, event>>
  BY <1>1 DEF GiveAccepted
<1>3. /\ id = result[1].fd /\ new = result[1].new /\ 1 \in DOMAIN result
      /\ id \in Opened /\ new \in Opened /\ id # new
      /\ result[1].bytes = <<>> /\ Unheard(1, new) /\ InResult(new) = <<>>
  BY <1>1, <1>2, FirstIs
<1>4. /\ conn[new] = NewConn("no") /\ new \notin DOMAIN sockets
      /\ new \in Watched /\ (Owner(id) # Nobody \/ alive # Cell)
  BY <1>3 DEF Unheard
<1>5. /\ conn[new].got = <<>> /\ conn[new].given = <<>> /\ conn[new].told = "no"
      /\ conn[new].left = "no"
  BY <1>4, NewConnOf
<1>6. Slot(pool, new).status # "halfclose"
  BY <1>3, <1>4, <1>5 DEF Live, Owners
<1>7. ResultGone
  BY <1>2, ResultLess DEF Results, Next1
<1>8. InResult(new)' = <<>>
  <2>1. Head(result).fd # new
    BY <1>1, <1>3
  <2> QED BY <1>3, <1>7, <2>1 DEF ResultGone
<1>9. conn \in [Opened -> ConnType] /\ Nobody \in V /\ <<>> \in V /\ <<>> # Nobody /\ Owner(new) = Nobody
      /\ <<>> \notin Cell /\ Nobody \notin Cell
  BY <1>4, OwnerTypes DEF Live, Types, Owner
<1>10. \A l \in {"no", "asked", "failed", "orphan"} : \A w \in Opened : Left(w, [conn[w] EXCEPT !.left = l], l)
          /\ [conn[w] EXCEPT !.left = l].told = conn[w].told
  <2> SUFFICES ASSUME NEW l \in {"no", "asked", "failed", "orphan"}, NEW w \in Opened
               PROVE  Left(w, [conn[w] EXCEPT !.left = l], l)
                      /\ [conn[w] EXCEPT !.left = l].told = conn[w].told
    OBVIOUS
  <2>1. PICK c \in ConnType : c = conn[w]
    BY Typed
  <2>2. /\ [c EXCEPT !.left = l] \in ConnType /\ [c EXCEPT !.left = l].got = c.got
        /\ [c EXCEPT !.left = l].out = c.out /\ [c EXCEPT !.left = l].written = c.written
        /\ [c EXCEPT !.left = l].left = l /\ [c EXCEPT !.left = l].told = c.told
    BY DEF ConnType
  <2> QED BY <2>1, <2>2 DEF Left
<1>11. CASE /\ Owner(id) \in alive
            /\ conn' = [conn EXCEPT ![new].told = "forward"]
            /\ sockets' = With(sockets, new, <<>>)
            /\ UNCHANGED pool
  <2>1. PICK c \in ConnType : c = conn[new]
    BY <1>3, Typed
  <2>2. PICK x : x = [c EXCEPT !.told = "forward"]
    OBVIOUS
  <2>3. /\ x \in ConnType /\ x.got = c.got /\ x.given = c.given /\ x.out = c.out
        /\ x.written = c.written /\ x.left = c.left /\ x.told = "forward"
    BY <2>2 DEF ConnType
  <2>4. conn' = [conn EXCEPT ![new] = x]
    BY <1>11, <2>1, <2>2
  <2>5. /\ Opened' = Opened /\ conn' \in [Opened' -> ConnType]
        /\ conn'[new] = x /\ \A w \in Opened \ {new} : conn'[w] = conn[w]
    BY <1>3, <2>3, <2>4, ConnSet
  <2>6. SocketsSet(new, <<>>)
    BY <1>9, <1>11, OwnerAdded
  <2>7. \A u \in Opened : /\ conn'[u].got = conn[u].got /\ conn'[u].out = conn[u].out
                           /\ conn'[u].written = conn[u].written
    BY <2>1, <2>3, <2>5
  <2>8. /\ Elsewhere(id, new)
        /\ \A u \in Opened : new # u => Owner(u)' = Owner(u) /\ InTable(u)' = InTable(u)
        /\ \A u \in DOMAIN sockets : u \in DOMAIN sockets'
    <3>1. HistoriesElse(id, new)
      BY <2>5, <2>7 DEF HistoriesElse
    <3> QED BY <1>3, <2>6, <3>1, ElsewhereOf
  <2>9. Calm(id) /\ Watched' = Watched
    BY <1>11, StillCalm
  <2>10. RoundOf(id)
    BY <1>3, <1>7, <1>11, <2>5, <2>8, <2>9, RoundSame
  <2>11. RoundOf(new)
    <3>1. Owner(new)' = <<>> /\ new \in DOMAIN sockets'
      BY <2>6 DEF SocketsSet
    <3>2. InTable(new)' = <<>>
      <4>1. Kept(new)'
        BY <1>9, <3>1 DEF Kept
      <4>2. sockets'[new] = <<>>
        BY <3>1 DEF Owner
      <4> QED BY <4>1, <4>2, FlattenEmpty DEF InTable
    <3>3. conn'[new].given \o InTable(new)' \o InResult(new)' = conn'[new].got
      <4>1. conn'[new].given = <<>> /\ conn'[new].got = <<>>
        BY <1>5, <2>1, <2>3, <2>5
      <4>2. <<>> \o <<>> = <<>>
        OBVIOUS
      <4> QED BY <1>8, <3>2, <4>1, <4>2
    <3>4. conn'[new].left = "no" /\ conn'[new].told = "forward"
      BY <1>5, <2>1, <2>3, <2>5
    <3>5. Slot(pool', new).status # "halfclose"
      BY <1>6, <1>11
    <3> QED BY <1>5, <1>9, <2>9, <3>1, <3>3, <3>4, <3>5 DEF RoundOf
  <2>12. Owner(id)' = Nobody => Owner(id) = Nobody \/ alive # Cell
    BY <1>3, <2>8
  <2> QED BY <1>2, <1>3, <2>8, <2>9, <2>10, <2>11, <2>12, RoundKeeps
<1>12. CASE /\ Owner(id) \in Cell \ alive
            /\ Forget(id)
            /\ pool' = lclose(pool, id)
            /\ conn' = [conn EXCEPT ![id].left = "asked", ![new].left = "orphan"]
  <2>1. PICK x, y : x = [conn[id] EXCEPT !.left = "asked"] /\ y = [conn[new] EXCEPT !.left = "orphan"]
    OBVIOUS
  <2>2. Left(id, x, "asked") /\ x.told = conn[id].told /\ Left(new, y, "orphan") /\ y.told = conn[new].told
    BY <1>3, <1>10, <2>1
  <2>3. conn' = [[conn EXCEPT ![id] = x] EXCEPT ![new] = y]
    BY <1>3, <1>12, <2>1
  <2>4. /\ x \in ConnType /\ x.got = conn[id].got /\ x.out = conn[id].out
        /\ x.written = conn[id].written /\ x.left = "asked"
        /\ y \in ConnType /\ y.got = conn[new].got /\ y.out = conn[new].out
        /\ y.written = conn[new].written /\ y.left = "orphan"
    BY <2>2 DEF Left
  <2>5. /\ Opened' = Opened /\ conn' \in [Opened' -> ConnType]
        /\ conn'[new] = y /\ conn'[id] = x
        /\ \A w \in Opened \ {id, new} : conn'[w] = conn[w]
    BY <1>3, <1>9, <2>3, <2>4 DEF Opened
  <2>6. SocketsSet(id, Nobody)
    <3>1. id \in DOMAIN sockets
      BY <1>9, <1>12, OwnerTypes
    <3> QED BY <1>9, <1>12, <3>1, OwnerChanged DEF Forget
  <2>7. \A u \in Opened : /\ conn'[u].got = conn[u].got /\ conn'[u].out = conn[u].out
                           /\ conn'[u].written = conn[u].written
    <3> SUFFICES ASSUME NEW u \in Opened
                 PROVE  /\ conn'[u].got = conn[u].got /\ conn'[u].out = conn[u].out
                        /\ conn'[u].written = conn[u].written
      OBVIOUS
    <3>1. u = id \/ u = new \/ u \in Opened \ {id, new}
      OBVIOUS
    <3> QED BY <2>4, <2>5, <3>1
  <2>8. /\ Elsewhere(id, new)
        /\ \A u \in Opened : id # u => Owner(u)' = Owner(u) /\ InTable(u)' = InTable(u)
        /\ \A u \in DOMAIN sockets : u \in DOMAIN sockets'
    <3>1. HistoriesElse(id, new)
      BY <2>5, <2>7 DEF HistoriesElse
    <3> QED BY <1>3, <2>6, <3>1, ElsewhereOf
  <2>9. Calm(id) /\ (id \in Watched' => Slot(pool', id).status = "halfclose")
    BY <1>3, <1>12, CloseCalm
  <2>10. RoundOf(id)
    <3>1. Owner(id)' = Nobody
      BY <2>6 DEF SocketsSet
    <3>2. conn'[id].left = "asked" /\ conn'[id].told = conn[id].told
      BY <2>2, <2>4, <2>5
    <3> QED BY <1>3, <2>8, <2>9, <3>1, <3>2, RoundAsked
  <2>11. RoundOf(new)
    <3>1. Owner(new)' = Nobody
      BY <1>3, <1>9, <2>8
    <3>2. conn'[new].left = "orphan" /\ conn'[new].told = "no"
      BY <1>5, <2>2, <2>4, <2>5
    <3>3. new \in Watched' => Slot(pool', new).status # "halfclose"
      BY <1>3, <1>6, <2>9 DEF Calm
    <3>4. alive # Cell
      BY <1>12
    <3> QED BY <1>9, <3>1, <3>2, <3>3, <3>4 DEF RoundOf
  <2>12. Owner(id)' = Nobody => Owner(id) = Nobody \/ alive # Cell
    BY <1>12
  <2> QED BY <1>2, <1>3, <2>8, <2>9, <2>10, <2>11, <2>12, RoundKeeps
<1>13. CASE /\ Owner(id) = Nobody
            /\ conn' = [conn EXCEPT ![new].left = "orphan"]
            /\ UNCHANGED <<pool, sockets>>
  <2>1. PICK y : y = [conn[new] EXCEPT !.left = "orphan"]
    OBVIOUS
  <2>2. Left(new, y, "orphan") /\ y.told = conn[new].told
    BY <1>3, <1>10, <2>1
  <2>3. conn' = [conn EXCEPT ![new] = y]
    BY <1>13, <2>1
  <2>4. /\ y \in ConnType /\ y.got = conn[new].got /\ y.out = conn[new].out
        /\ y.written = conn[new].written /\ y.left = "orphan"
    BY <2>2 DEF Left
  <2>5. /\ Opened' = Opened /\ conn' \in [Opened' -> ConnType]
        /\ conn'[new] = y /\ \A w \in Opened \ {new} : conn'[w] = conn[w]
    BY <1>3, <2>3, <2>4, ConnSet
  <2>6. \A u \in Opened : /\ conn'[u].got = conn[u].got /\ conn'[u].out = conn[u].out
                           /\ conn'[u].written = conn[u].written
    BY <2>4, <2>5
  <2>7. /\ Elsewhere(id, new)
        /\ \A u \in Opened : new # u => Owner(u)' = Owner(u) /\ InTable(u)' = InTable(u)
        /\ \A u \in DOMAIN sockets : u \in DOMAIN sockets'
    <3>1. HistoriesElse(id, new)
      BY <2>5, <2>6 DEF HistoriesElse
    <3>2. UNCHANGED sockets
      BY <1>13
    <3> QED BY <1>3, <3>1, <3>2, ElsewhereOf
  <2>8. Calm(id) /\ Watched' = Watched
    BY <1>13, StillCalm
  <2>9. RoundOf(id)
    BY <1>3, <1>7, <1>13, <2>5, <2>7, <2>8, RoundSame
  <2>10. RoundOf(new)
    <3>1. Owner(new)' = Nobody
      BY <1>9, <1>13, OwnerSame
    <3>2. conn'[new].left = "orphan" /\ conn'[new].told = "no"
      BY <1>5, <2>2, <2>4, <2>5
    <3>3. Slot(pool', new).status # "halfclose"
      BY <1>6, <1>13
    <3>4. alive # Cell
      BY <1>4, <1>13
    <3> QED BY <1>9, <3>1, <3>2, <3>3, <3>4 DEF RoundOf
  <2>11. Owner(id)' = Nobody => Owner(id) = Nobody \/ alive # Cell
    BY <1>13
  <2> QED BY <1>2, <1>3, <2>7, <2>8, <2>9, <2>10, <2>11, RoundKeeps
<1>14. \/ /\ Owner(id) \in alive
          /\ conn' = [conn EXCEPT ![new].told = "forward"]
          /\ sockets' = With(sockets, new, <<>>)
          /\ UNCHANGED pool
       \/ /\ Owner(id) \in Cell \ alive
          /\ Forget(id)
          /\ pool' = lclose(pool, id)
          /\ conn' = [conn EXCEPT ![id].left = "asked", ![new].left = "orphan"]
       \/ /\ Owner(id) = Nobody
          /\ conn' = [conn EXCEPT ![new].left = "orphan"]
          /\ UNCHANGED <<pool, sockets>>
  BY <1>1 DEF GiveAccepted
<1> QED BY <1>11, <1>12, <1>13, <1>14

\* The bytes of the first result, and what comes after them.
LEMMA FirstBytes ==
  ASSUME Live, ResultGone, NEW id \in Opened, id = result[1].fd,
         Owner(id) # Nobody, conn[id].left # "asked",
         NEW b, b = result[1].bytes, b \in Seq(Byte)
  PROVE  /\ (conn[id].given \o b) \o <<>> \o InResult(id)' = conn[id].got \/ InTable(id) # <<>>
         /\ conn[id].given \o (InTable(id) \o b) \o InResult(id)' = conn[id].got
<1> DEFINE g == conn[id].given
           t == InTable(id)
           r == InResult(id)'
           a == conn[id].got
<1>1. g \in Seq(Byte) /\ t \in Seq(Byte) /\ a \in Seq(Byte)
  BY Typed, ConnFields, InTypes
<1>2. r \in Seq(Byte)
  <2>1. result' \in Seq(ResultType)
    BY DEF ResultGone
  <2>2. ASSUME NEW e \in ResultType PROVE e \in Entry(Nat \union {Nobody})
    BY Typed, ResultFields DEF Entry
  <2>3. result' \in Seq(Entry(Nat \union {Nobody}))
    BY <2>1, <2>2, SeqMonotonic
  <2>4. InResult(id)' = Gathered(result', id)
    BY DEF InResult, Gathered, Pieces
  <2> QED BY <2>3, <2>4, GatheredType
<1>3. InResult(id) = b \o r
  BY DEF ResultGone
<1>4. (g \o t) \o (b \o r) = a
  <2>1. (g \o t) \o InResult(id) = a
    BY DEF Live, OwnerGetsAll
  <2> QED BY <1>3, <2>1
<1>5. Associates(Byte)
  BY ConcatAssociates
<1> HIDE DEF g, t, r, a
<1>6. g \o t \in Seq(Byte) /\ t \o b \in Seq(Byte) /\ g \o b \in Seq(Byte)
  BY <1>1, ConcatProperties
<1>7. ((g \o t) \o b) \o r = a
  <2> DEFINE u == g \o t
  <2>1. u \in Seq(Byte)
    BY <1>6
  <2> HIDE DEF u
  <2>2. (u \o b) \o r = u \o (b \o r)
    BY <1>2, <1>5, <2>1 DEF Associates
  <2> QED BY <1>4, <2>2 DEF u
<1>8. (g \o t) \o b = g \o (t \o b)
  BY <1>1, <1>5 DEF Associates
<1>9. t = <<>> => (g \o b) \o <<>> \o r = a
  <2>1. g \o <<>> = g /\ (g \o b) \o <<>> = g \o b
    BY <1>1, <1>6, ConcatEmptySeq
  <2> QED BY <1>7, <2>1
<1> QED BY <1>7, <1>8, <1>9 DEF g, t, r, a

\* GiveData keeps the invariant: what goes to the owner, or into the table, leaves the results.
LEMMA GiveDataKeeps ==
  ASSUME Live, GiveData
  PROVE  Live'
<1>1. PICK id, b : id = Head(result).fd /\ b = Head(result).bytes
  OBVIOUS
<1>2. Results /\ Head(result).new = Nobody /\ Next1 /\ UNCHANGED <<pool, alive, phase, event>>
  BY DEF GiveData
<1>3. /\ id = result[1].fd /\ result[1].new = Nobody /\ 1 \in DOMAIN result
      /\ id \in Opened /\ Nobody \notin Opened /\ b = result[1].bytes /\ b \in Seq(Byte)
  BY <1>1, <1>2, FirstIs
<1>4. ResultGone
  BY <1>2, ResultLess DEF Results, Next1
<1>5. Calm(id) /\ Watched' = Watched
  BY <1>2, StillCalm
<1>6. conn \in [Opened -> ConnType] /\ Nobody \notin Cell /\ alive \subseteq Cell
  BY OwnerTypes DEF Live, Types
<1>7. /\ id \in Watched => (Slot(pool, id).status = "halfclose" => conn[id].left = "asked")
      /\ Owner(id) \in Cell => conn[id].told = "yes"
      /\ conn[id].told = "forward" =>
           id \in DOMAIN sockets /\ (Owner(id) = Nobody => conn[id].left = "asked")
  BY <1>3 DEF Live, Owners
<1>8. UNCHANGED pool
  BY <1>2
<1>11. CASE Owner(id) \in alive /\ conn' = [conn EXCEPT ![id].given = @ \o b] /\ UNCHANGED sockets
  <2>1. conn[id].told \in {"no", "yes", "forward"} /\ conn[id].left \in {"no", "asked", "failed", "orphan"}
    BY <1>3, Typed, ConnFields
  <2>2. PICK x : /\ Left(id, x, conn[id].left) /\ x.given = conn[id].given \o b
                 /\ x.told = conn[id].told /\ conn' = [conn EXCEPT ![id] = x]
    <3>1. \E x : GivenTo(id, x, b, conn[id].told, conn[id].left)
      BY <1>3, <2>1, GivenSet
    <3> QED BY <1>11, <3>1 DEF GivenTo
  <2>3. /\ x \in ConnType /\ x.got = conn[id].got /\ x.out = conn[id].out
        /\ x.written = conn[id].written /\ x.left = conn[id].left
    BY <2>2 DEF Left
  <2>4. /\ Opened' = Opened /\ conn' \in [Opened' -> ConnType]
        /\ conn'[id] = x /\ \A w \in Opened \ {id} : conn'[w] = conn[w]
    BY <1>3, <2>2, <2>3, ConnSet
  <2>5. HistoriesElse(id, Nobody)
    <3>1. \A u \in Opened : /\ conn'[u].got = conn[u].got /\ conn'[u].out = conn[u].out
                            /\ conn'[u].written = conn[u].written
      BY <2>3, <2>4
    <3> QED BY <2>4, <3>1 DEF HistoriesElse
  <2>6. Elsewhere(id, Nobody)
    BY <1>3, <1>11, <2>5, ElsewhereOf
  <2>7. Owner(id)' = Owner(id) /\ InTable(id)' = InTable(id) /\ sockets' = sockets
    BY <1>11, OwnerSame
  <2>8. InTable(id) = <<>> /\ Owner(id) # Nobody
    BY <1>6, <1>11 DEF InTable, Kept
  <2>9. conn'[id].left # "asked" =>
          conn'[id].given \o InTable(id)' \o InResult(id)' = conn'[id].got
    <3> SUFFICES ASSUME conn'[id].left # "asked"
                 PROVE  conn'[id].given \o InTable(id)' \o InResult(id)' = conn'[id].got
      OBVIOUS
    <3>1. conn[id].left # "asked"
      BY <2>3, <2>4
    <3>2. (conn[id].given \o b) \o <<>> \o InResult(id)' = conn[id].got
      BY <1>3, <1>4, <2>8, <3>1, FirstBytes
    <3> QED BY <2>2, <2>3, <2>4, <2>7, <2>8, <3>2
  <2>10. RoundOf(id)
    BY <1>5, <1>7, <1>8, <2>2, <2>3, <2>4, <2>7, <2>8, <2>9 DEF RoundOf
  <2> QED BY <1>2, <1>3, <1>5, <2>6, <2>7, <2>10, RoundKeeps
<1>12. CASE Kept(id) /\ sockets' = [sockets EXCEPT ![id] = Append(@, b)] /\ UNCHANGED conn
  <2>1. id \in DOMAIN sockets /\ sockets[id] \in Table /\ sockets[id] = Owner(id) /\ Owner(id) # Nobody
    BY <1>12, OwnerTypes DEF Kept
  <2> DEFINE v == Append(sockets[id], b)
  <2>2. v \in Table
    <3> DEFINE S == Seq(Byte)
    <3>1. b \in S /\ sockets[id] \in Seq(S)
      BY <1>3, <2>1 DEF Table
    <3> HIDE DEF S
    <3>2. v \in Seq(S)
      BY <3>1, AppendProperties
    <3> QED BY <3>2 DEF S, Table
  <2>3. sockets' = [sockets EXCEPT ![id] = v]
    BY <1>12
  <2>4. FlattenSeq(v) = FlattenSeq(sockets[id]) \o b
    BY <1>3, <2>1, FlattenAppend DEF Table
  <2> HIDE DEF v
  <2>5. v \in V /\ v # Nobody /\ v \notin Cell
    BY <2>2, OwnerTypes
  <2>6. SocketsSet(id, v)
    BY <2>1, <2>3, <2>5, OwnerChanged
  <2>7. Owner(id)' = v /\ id \in DOMAIN sockets'
    BY <2>6 DEF SocketsSet
  <2>8. InTable(id)' = InTable(id) \o b
    <3>1. Kept(id)' /\ sockets'[id] = v
      BY <2>5, <2>7 DEF Kept, Owner
    <3> QED BY <1>12, <2>4, <3>1 DEF InTable
  <2>9. HistoriesElse(id, Nobody)
    BY <1>6, <1>12 DEF HistoriesElse, Opened
  <2>10. Elsewhere(id, Nobody)
    BY <1>3, <2>6, <2>9, ElsewhereOf
  <2>11. conn'[id] = conn[id]
    BY <1>12
  <2>12. conn[id].left # "asked" =>
          conn[id].given \o InTable(id)' \o InResult(id)' = conn[id].got
    BY <1>3, <1>4, <2>1, <2>8, FirstBytes
  <2>13. RoundOf(id)
    BY <1>5, <1>7, <1>8, <2>5, <2>7, <2>11, <2>12 DEF RoundOf
  <2> QED BY <1>2, <1>3, <1>5, <2>5, <2>7, <2>10, <2>13, RoundKeeps
<1>13. CASE Owner(id) = Nobody /\ UNCHANGED <<conn, sockets>>
  <2>1. UNCHANGED sockets /\ conn' = conn
    BY <1>13
  <2>2. Owner(id)' = Owner(id) /\ InTable(id)' = InTable(id)
    BY <2>1, OwnerSame
  <2>3. HistoriesElse(id, Nobody)
    BY <1>6, <2>1 DEF HistoriesElse, Opened
  <2>4. Elsewhere(id, Nobody)
    BY <1>3, <2>1, <2>3, ElsewhereOf
  <2>5. RoundOf(id)
    BY <1>3, <1>4, <1>5, <1>8, <1>13, <2>1, <2>2, RoundSame
  <2> QED BY <1>2, <1>3, <1>5, <1>13, <2>4, <2>5, RoundKeeps
<1>14. \/ Owner(id) \in alive /\ conn' = [conn EXCEPT ![id].given = @ \o b] /\ UNCHANGED sockets
       \/ Kept(id) /\ sockets' = [sockets EXCEPT ![id] = Append(@, b)] /\ UNCHANGED conn
       \/ Owner(id) = Nobody /\ UNCHANGED <<conn, sockets>>
  BY <1>1 DEF GiveData
<1> QED BY <1>11, <1>12, <1>13, <1>14

\* The owner of the socket has died.
LEMMA GiveDeadKeeps ==
  ASSUME Live, GiveDead
  PROVE  Live'
<1>1. PICK id : id = Head(result).fd
  OBVIOUS
<1>2. CASE CloseFails(pool, id)
  BY <1>1, <1>2, MainEnds
<1>3. CASE ~CloseFails(pool, id)
  <2>1. /\ Results /\ Head(result).new = Nobody /\ Next1 /\ UNCHANGED <<alive, event, phase>>
        /\ Owner(id) \in Cell \ alive
        /\ sockets' = [sockets EXCEPT ![id] = Nobody]
        /\ conn' = [conn EXCEPT ![id].left = "asked"]
        /\ pool' = lclose(pool, id)
    BY <1>1, <1>3 DEF GiveDead, Forget, Asked
  <2>2. /\ id = result[1].fd /\ result[1].new = Nobody
        /\ id \in Opened /\ Nobody \notin Opened
    BY <1>1, <2>1, FirstIs
  <2>3. PICK x : /\ Left(id, x, "asked") /\ conn' = [conn EXCEPT ![id] = x]
                 /\ x.given = conn[id].given /\ x.told = conn[id].told
    BY <2>1, <2>2, LeftSet
  <2>4. /\ x \in ConnType /\ x.got = conn[id].got /\ x.out = conn[id].out
        /\ x.written = conn[id].written /\ x.left = "asked"
    BY <2>3 DEF Left
  <2>5. /\ Opened' = Opened /\ conn' \in [Opened' -> ConnType]
        /\ conn'[id] = x /\ \A w \in Opened \ {id} : conn'[w] = conn[w]
    BY <2>2, <2>3, <2>4, ConnSet
  <2>6. SocketsSet(id, Nobody)
    BY <2>1, OwnerChanged, OwnerTypes
  <2>7. HistoriesElse(id, Nobody)
    <3>1. \A u \in Opened : /\ conn'[u].got = conn[u].got /\ conn'[u].out = conn[u].out
                            /\ conn'[u].written = conn[u].written
      BY <2>4, <2>5
    <3> QED BY <2>5, <3>1 DEF HistoriesElse
  <2>8. Elsewhere(id, Nobody) /\ \A u \in DOMAIN sockets : u \in DOMAIN sockets'
    BY <2>2, <2>6, <2>7, ElsewhereOf
  <2>9. Calm(id) /\ (id \in Watched' => Slot(pool', id).status = "halfclose")
    BY <2>1, <2>2, CloseCalm
  <2>10. RoundOf(id)
    <3>1. Owner(id)' = Nobody
      BY <2>6 DEF SocketsSet
    <3>2. conn'[id].left = "asked" /\ conn'[id].told = conn[id].told
      BY <2>3, <2>4, <2>5
    <3> QED BY <2>2, <2>8, <2>9, <3>1, <3>2, RoundAsked
  <2>11. Owner(id)' = Nobody => Owner(id) = Nobody \/ alive # Cell
    BY <2>1
  <2> QED BY <2>1, <2>2, <2>8, <2>9, <2>10, <2>11, RoundKeeps
<1> QED BY <1>2, <1>3

-----------------------------------------------------------------------------
(* A cell listens or connects                                              *)

\* A socket n that is a cell's from the start, or one that cannot be bound and is
\* closed again.
LEMMA OpensKeeps ==
  ASSUME Live, Dispatching, UNCHANGED <<alive, phase, ready, event, result>>,
         NEW n \in Nat \ {0}, n \notin Opened, n # Nobody, \A w \in Opened : w < n,
         PoolOK(pool'), Opened \union {n} \subseteq 1 .. pool'.id - 1,
         \A w \in Watched : Slot(pool', w) = Slot(pool, w),
         NEW x \in ConnType, conn' = With(conn, n, x),
         x.got = <<>>, x.given = <<>>, x.out = <<>>, x.written = 0,
         \/ /\ Watched' = Watched \union {n}
            /\ Slot(pool', n).wb = <<>> /\ Slot(pool', n).status = "suspend"
            /\ x.told = "yes" /\ x.left = "no" /\ \E c \in Cell : SocketsSet(n, c)
         \/ /\ Watched' = Watched
            /\ x.told = "no" /\ x.left = "asked" /\ UNCHANGED sockets
  PROVE  Live'
<1>2. /\ PoolOK(pool) /\ Watched = DOMAIN pool.ev /\ Watched \subseteq Opened
      /\ Opened \subseteq Nat \ {0} /\ Nobody \notin Opened
      /\ DOMAIN sockets \subseteq Opened /\ sockets \in [DOMAIN sockets -> V]
      /\ \A i \in DOMAIN result : result[i].fd \in Opened /\ result[i].new \in Opened \union {Nobody}
      /\ Nobody \notin Cell
  BY Typed, OwnerTypes DEF Live, Types, V
<1>3. /\ Opened' = Opened \union {n} /\ conn' \in [Opened' -> ConnType]
      /\ conn'[n] = x /\ \A w \in Opened : conn'[w] = conn[w]
  BY ConnAdded
<1>4. /\ DOMAIN sockets' \subseteq Opened' /\ sockets' \in [DOMAIN sockets' -> V]
      /\ \A w \in Opened : /\ Owner(w)' = Owner(w)
                           /\ w \in DOMAIN sockets' <=> w \in DOMAIN sockets
                           /\ w \in DOMAIN sockets => sockets'[w] = sockets[w]
      /\ \/ Owner(n)' \in Cell /\ n \in Watched' /\ x.told = "yes"
         \/ Owner(n)' = Nobody /\ n \notin Watched' /\ x.told = "no" /\ x.left = "asked"
  <2>1. CASE UNCHANGED sockets /\ x.told = "no" /\ x.left = "asked" /\ Watched' = Watched
    <3>1. Owner(n)' = Nobody
      BY <1>2, <2>1 DEF Owner
    <3>2. \A w \in Opened : Owner(w)' = Owner(w)
      BY <2>1, OwnerSame
    <3>3. sockets' = sockets
      BY <2>1
    <3>4. n \notin Watched'
      BY <1>2, <2>1
    <3> QED BY <1>2, <1>3, <2>1, <3>1, <3>2, <3>3, <3>4
  <2>2. ASSUME NEW c \in Cell, SocketsSet(n, c), n \in Watched', x.told = "yes"
        PROVE  /\ DOMAIN sockets' \subseteq Opened' /\ sockets' \in [DOMAIN sockets' -> V]
               /\ \A w \in Opened : /\ Owner(w)' = Owner(w)
                                    /\ w \in DOMAIN sockets' <=> w \in DOMAIN sockets
                                    /\ w \in DOMAIN sockets => sockets'[w] = sockets[w]
               /\ Owner(n)' \in Cell
    <3>1. /\ DOMAIN sockets' = DOMAIN sockets \union {n}
          /\ sockets' \in [DOMAIN sockets' -> V]
          /\ Owner(n)' = c /\ \A w \in Opened : Owner(w)' = Owner(w)
      BY <2>2 DEF SocketsSet
    <3>2. \A w \in DOMAIN sockets : sockets'[w] = sockets[w]
      <4>1. ASSUME NEW w \in DOMAIN sockets PROVE sockets'[w] = sockets[w]
        <5>1. Owner(w)' = Owner(w)
          BY <1>2, <3>1, <4>1
        <5> QED BY <3>1, <5>1 DEF Owner
      <4> QED BY <4>1
    <3> QED BY <1>2, <1>3, <3>1, <3>2
  <2> QED BY <2>1, <2>2
<1>5. phase # "poll" /\ event = NoEvent /\ ready = {} /\ (result # <<>> => phase = "dead" /\ alive # Cell)
  BY WhenDispatching
<1>6. \A w \in Opened : InTable(w)' = InTable(w)
  <2>1. ASSUME NEW w \in Opened PROVE InTable(w)' = InTable(w)
    <3>1. Owner(w)' = Owner(w)
      BY <1>4
    <3>2. Kept(w)' = Kept(w)
      BY <3>1 DEF Kept
    <3>3. Kept(w) => w \in DOMAIN sockets
      BY OwnerTypes DEF Kept
    <3> QED BY <1>4, <3>2, <3>3 DEF InTable
  <2> QED BY <2>1
<1>7. \A w : InResult(w)' = InResult(w)
  BY ResultSame
<1>8. InResult(n) = <<>>
  <2>1. \A i \in 1 .. Len(result) : result[i].fd # n
    BY <1>2, Typed
  <2>2. Gathered(result, n) = <<>>
    BY <2>1, ResultSeq, GatheredNone
  <2> QED BY <2>2, InTypes
<1>12. /\ Rounds /\ Owners /\ Fresh /\ WritesInOrder /\ OwnerGetsAll /\ ClosedIsHeard
       /\ NoOrphan /\ Types /\ MainDiesOfReuse
  BY DEF Live
<1>14. event' = NoEvent /\ event'.id = 0 /\ event'.read = FALSE /\ event'.write = FALSE
  BY <1>5, NoEventIs
<1>15. Watched' \subseteq Watched \union {n} /\ Watched \subseteq Watched'
  OBVIOUS
<1>20. Types'
  <2>1. result' \in Seq(ResultType')
    <3>1. ResultType \subseteq ResultType'
      BY <1>3 DEF ResultType
    <3>2. result \in Seq(ResultType')
      BY <3>1, Typed, SeqMonotonic
    <3> QED BY <3>2
  <2>2. Watched' \subseteq Opened' /\ Opened' \subseteq 1 .. pool'.id - 1
    BY <1>2, <1>3, <1>15
  <2>3. sockets' \in [DOMAIN sockets' -> Cell \union {Nobody} \union Table]
    BY <1>4 DEF V
  <2>4. event' \in EventType'
    BY <1>3, <1>12 DEF Types, EventType
  <2>5. ready' \subseteq Opened'
    BY <1>5
  <2> QED BY <1>3, <1>4, <1>12, <2>1, <2>2, <2>3, <2>4, <2>5 DEF Types
<1>21. Polling'
  BY <1>5, <1>14 DEF Polling
<1>22. WritesInOrder'
  <2>1. ASSUME NEW w \in Opened
        PROVE  /\ conn'[w].out = Upto(Len(conn'[w].out))
               /\ w \in Watched' =>
                    conn'[w].out \o FlattenSeq(Slot(pool', w).wb) = Upto(conn'[w].written)
    <3>1. conn'[w] = conn[w]
      BY <1>3
    <3>2. w \in Watched' => w \in Watched /\ Slot(pool', w) = Slot(pool, w)
      BY <1>15
    <3> QED BY <1>12, <3>1, <3>2 DEF WritesInOrder
  <2>2. /\ conn'[n].out = Upto(Len(conn'[n].out))
        /\ n \in Watched' => conn'[n].out \o FlattenSeq(Slot(pool', n).wb) = Upto(conn'[n].written)
    <3>1. n \in Watched' => Slot(pool', n).wb = <<>>
      BY <1>2
    <3> QED BY <1>3, <3>1, NothingWritten
  <2> QED BY <1>3, <2>1, <2>2 DEF WritesInOrder
<1>23. OwnerGetsAll'
  <2>1. ASSUME NEW w \in Opened', Owner(w)' # Nobody, conn'[w].left # "asked"
        PROVE  conn'[w].given \o InTable(w)' \o InResult(w)' = conn'[w].got
    <3>1. CASE w \in Opened
      <4>1. Owner(w) # Nobody /\ conn'[w] = conn[w]
        BY <1>3, <1>4, <2>1, <3>1
      <4>2. conn[w].given \o InTable(w) \o InResult(w) = conn[w].got
        BY <1>12, <2>1, <3>1, <4>1 DEF OwnerGetsAll
      <4> QED BY <1>6, <1>7, <3>1, <4>1, <4>2
    <3>2. CASE w = n
      <4>1. Owner(n)' \in Cell
        BY <1>3, <1>4, <2>1, <3>2
      <4>2. InTable(n)' = <<>>
        BY <4>1 DEF InTable, Kept
      <4>3. InResult(n)' = <<>>
        BY <1>7, <1>8
      <4>4. <<>> \o <<>> = <<>>
        OBVIOUS
      <4> QED BY <1>3, <3>2, <4>2, <4>3, <4>4
    <3> QED BY <1>3, <3>1, <3>2
  <2> QED BY <2>1 DEF OwnerGetsAll
<1>24. ClosedIsHeard'
  <2>1. ASSUME NEW w \in Opened' \ Watched', conn'[w].left = "no"
        PROVE  w \in Opened \ Watched /\ conn'[w] = conn[w]
    <3>1. w # n
      BY <1>3, <1>4, <2>1
    <3> QED BY <1>3, <1>15, <2>1, <3>1
  <2> QED BY <1>12, <2>1 DEF ClosedIsHeard
<1>25. NoOrphan'
  <2>1. ASSUME NEW w \in Watched'
        PROVE  \/ Owner(w)' # Nobody
               \/ Slot(pool', w).status = "halfclose"
               \/ \E i \in DOMAIN result' : result'[i].new = w
               \/ conn'[w].left = "orphan" /\ alive' # Cell
    <3>1. CASE w = n
      BY <1>2, <1>4, <3>1
    <3>2. CASE w # n
      <4>1. w \in Watched /\ w \in Opened
        BY <1>2, <1>15, <2>1, <3>2
      <4> QED BY <1>3, <1>4, <1>12, <4>1 DEF NoOrphan
    <3> QED BY <3>1, <3>2
  <2> QED BY <2>1 DEF NoOrphan
<1>26. MainDiesOfReuse' /\ (phase' = "dead" => result' # <<>> /\ conn'[Head(result').fd].told = "yes")
  <2> SUFFICES ASSUME phase' = "dead"
               PROVE  MainDiesOfReuse' /\ result' # <<>> /\ conn'[Head(result').fd].told = "yes"
    BY DEF MainDiesOfReuse
  <2>1. PICK fd \in Opened : Ends(fd) /\ Owner(fd) = Nobody
    BY EndsOf
  <2>2. /\ result # <<>> /\ Head(result).fd = fd /\ conn[fd].told = "yes"
        /\ alive # Cell /\ fd \notin Watched
        /\ \E i \in DOMAIN result : result[i].new \in Opened /\ result[i].new > fd
    BY <2>1 DEF Ends
  <2>3. Owner(fd)' = Nobody /\ conn'[fd].told = "yes" /\ fd \notin Watched' /\ fd # n
    BY <1>3, <1>4, <1>15, <2>1, <2>2
  <2>4. Head(result').fd = fd
    BY <2>2
  <2>5. MainDiesOfReuse'
    BY <1>3, <2>2, <2>3, <2>4 DEF MainDiesOfReuse
  <2> QED BY <2>2, <2>3, <2>4, <2>5
<1>27. Rounds'
  <2>1. Cap(pool') # 0
    BY DEF PoolOK, PoolTypes
  <2>2. phase' # "exited" /\ (phase' = "sleep" => result' = <<>>)
    BY <1>12 DEF Rounds, Dispatching
  <2> QED BY <1>5, <1>14, <1>26, <2>1, <2>2 DEF Rounds, Known
<1>28. Owners'
  <2>1. ASSUME NEW w \in Opened
        PROVE  /\ Owner(w)' \in Cell => conn'[w].told = "yes"
               /\ conn'[w].told = "forward" =>
                    w \in DOMAIN sockets' /\ (Owner(w)' = Nobody => conn'[w].left = "asked")
               /\ w \in Watched' =>
                    /\ Slot(pool', w).status = "halfclose" => conn'[w].left = "asked"
                    /\ Slot(pool', w).listen => Slot(pool', w).wb = <<>>
    <3>1. conn'[w] = conn[w] /\ Owner(w)' = Owner(w) /\ (w \in DOMAIN sockets => w \in DOMAIN sockets')
      BY <1>3, <1>4
    <3>2. w \in Watched' => w \in Watched /\ Slot(pool', w) = Slot(pool, w)
      BY <1>15
    <3> QED BY <1>12, <3>1, <3>2 DEF Owners, Listening
  <2>2. /\ Owner(n)' \in Cell => conn'[n].told = "yes"
        /\ conn'[n].told # "forward"
        /\ n \in Watched' => Slot(pool', n).status = "suspend" /\ Slot(pool', n).wb = <<>>
    BY <1>2, <1>3, <1>4
  <2> QED BY <1>3, <2>1, <2>2 DEF Owners, Listening
<1>29. Fresh'
  <2> SUFFICES ASSUME NEW i \in DOMAIN result', Announced(i)'
               PROVE  Unheard(i, result[i].new)'
    BY DEF Fresh
  <2>1. i \in DOMAIN result /\ Announced(i)
    BY DEF Announced
  <2>2. PICK u : u = result[i].new
    OBVIOUS
  <2>3. Unheard(i, u)
    BY <1>12, <2>1, <2>2 DEF Fresh
  <2>4. u # Nobody /\ u \in Opened /\ u # 0
    <3>1. u # Nobody /\ u \in Opened \union {Nobody}
      BY <1>2, <2>1, <2>2 DEF Announced
    <3> QED BY <1>2, <3>1
  <2>5. \A j \in DOMAIN result' : result'[j].fd # u /\ (result'[j].new = u => j = i)
    BY <2>3 DEF Unheard
  <2>6. u \notin ready' \union {event'.id}
    BY <1>5, <1>14, <2>4
  <2>7. conn'[u] = NewConn("no") /\ u \notin DOMAIN sockets' /\ u \in Watched' /\ ~Slot(pool', u).listen
    BY <1>3, <1>4, <1>15, <2>3, <2>4 DEF Unheard, Listening
  <2>8. alive' # Cell
    <3>1. DOMAIN <<>> = {}
      OBVIOUS
    <3>2. result # <<>>
      BY <2>1, <3>1
    <3> QED BY <1>5, <3>2
  <2>9. u = result'[i].new
    BY <2>2
  <2>10. Unheard(i, u)'
    BY <2>5, <2>6, <2>7, <2>8 DEF Unheard, Listening
  <2> QED BY <2>9, <2>10
<1>30. ReusedLater'
  BY <1>5 DEF ReusedLater
<1> QED BY <1>20, <1>21, <1>22, <1>23, <1>24, <1>25, <1>26, <1>27, <1>28, <1>29, <1>30 DEF Live

\* connect and listen keep it: the socket is the cell's from the start.
LEMMA NewForKeeps ==
  ASSUME Live, NEW c \in Cell, NEW listen \in BOOLEAN, NewFor(c, listen)
  PROVE  Live'
<1>1. PICK n : n = NextId(pool)
  OBVIOUS
<1>2. PICK x : x = NewConn("yes")
  OBVIOUS
<1>3. /\ Dispatching /\ UNCHANGED <<alive, phase, ready, event, result>>
      /\ pool' = new_socket(pool, listen)
      /\ conn' = With(conn, n, x)
      /\ sockets' = With(sockets, n, c)
  BY <1>1, <1>2 DEF NewFor, Served
<1>4. Opens(pool', n, listen)
  BY <1>1, <1>3, NewPool
<1>5. /\ PoolOK(pool') /\ n \in Nat \ {0} /\ n \notin Opened /\ n # Nobody
      /\ \A w \in Opened : w < n
      /\ Opened \union {n} \subseteq 1 .. pool'.id - 1
      /\ Watched' = Watched \union {n}
      /\ Slot(pool', n).wb = <<>> /\ Slot(pool', n).status = "suspend"
      /\ \A w \in Watched : Slot(pool', w) = Slot(pool, w)
  BY <1>4 DEF Opens, Watched
<1>6. /\ x \in ConnType /\ x.got = <<>> /\ x.given = <<>> /\ x.out = <<>> /\ x.written = 0
      /\ x.told = "yes" /\ x.left = "no"
  BY <1>2, NewConnOf
<1>7. SocketsSet(n, c)
  BY <1>3, OwnerAdded, OwnerTypes
<1> QED BY <1>3, <1>5, <1>6, <1>7, OpensKeeps

\* A listen that fails keeps it: the socket is closed again, and no id is handed out.
LEMMA BindFailsKeeps ==
  ASSUME Live, BindFails
  PROVE  Live'
<1>1. PICK n, p : n = NextId(pool) /\ p = new_socket(pool, TRUE)
  OBVIOUS
<1>2. PICK x : x = [NewConn("no") EXCEPT !.left = "asked"]
  OBVIOUS
<1>3. /\ Dispatching /\ UNCHANGED <<alive, phase, ready, event, result>>
      /\ pool' = force_close(p, n)
      /\ conn' = With(conn, n, x)
      /\ UNCHANGED sockets
  BY <1>1, <1>2 DEF BindFails, Served
<1>4. Opens(p, n, TRUE)
  BY <1>1, NewPool
<1>5. /\ PoolOK(p) /\ n \in Nat \ {0} /\ n \notin Opened /\ n # Nobody
      /\ \A w \in Opened : w < n
      /\ Opened \union {n} \subseteq 1 .. p.id - 1
      /\ DOMAIN p.ev = Watched \union {n}
      /\ \A w \in Watched : Slot(p, w) = Slot(pool, w)
  BY <1>4 DEF Opens
<1>6. OthersKept(p, pool', n) /\ DOMAIN pool'.ev = DOMAIN p.ev \ {n}
  BY <1>3, <1>5, ForceCloseOf
<1>7. /\ PoolOK(pool') /\ pool'.id = p.id
      /\ Watched' = Watched
      /\ \A w \in Watched : Slot(pool', w) = Slot(pool, w)
  <2>1. Watched \subseteq Opened
    BY Typed
  <2> QED BY <1>5, <1>6, <2>1 DEF OthersKept, Watched
<1>8. Opened \union {n} \subseteq 1 .. pool'.id - 1
  BY <1>5, <1>7
<1>9. /\ x \in ConnType /\ x.got = <<>> /\ x.given = <<>> /\ x.out = <<>> /\ x.written = 0
      /\ x.told = "no" /\ x.left = "asked"
  <2>1. PICK c \in ConnType : c = NewConn("no")
    BY NewConnOf
  <2>2. /\ c.got = <<>> /\ c.given = <<>> /\ c.out = <<>> /\ c.written = 0 /\ c.told = "no"
    BY <2>1, NewConnOf
  <2>3. /\ [c EXCEPT !.left = "asked"] \in ConnType /\ [c EXCEPT !.left = "asked"].got = c.got
        /\ [c EXCEPT !.left = "asked"].given = c.given
        /\ [c EXCEPT !.left = "asked"].out = c.out /\ [c EXCEPT !.left = "asked"].written = c.written
        /\ [c EXCEPT !.left = "asked"].left = "asked" /\ [c EXCEPT !.left = "asked"].told = c.told
    BY DEF ConnType
  <2> QED BY <1>2, <2>1, <2>2, <2>3
<1> QED BY <1>3, <1>5, <1>7, <1>8, <1>9, OpensKeeps

-----------------------------------------------------------------------------
(* The whole life of the socket cell                                       *)

\* The invariant holds at first.
LEMMA InitIs == Init => IInv
<1> SUFFICES ASSUME Init PROVE Live
  BY LiveToIInv
<1> USE DEF Init
<1>1. DEFAULT_SOCKET \in Nat \ {0}
  BY PoolAssumption
<1>2. /\ pool = [s |-> pool.s, id |-> pool.id, count |-> pool.count, ev |-> pool.ev]
      /\ pool.s = [n \in 0 .. DEFAULT_SOCKET - 1 |-> EmptySlot]
      /\ pool.id = 1 /\ pool.count = 0 /\ pool.ev = <<>>
  BY DEF linit
<1>3. Cap(pool) = DEFAULT_SOCKET
  <2>1. DOMAIN pool.s = 0 .. DEFAULT_SOCKET - 1
    BY <1>2
  <2>2. Cardinality(0 .. DEFAULT_SOCKET - 1) = DEFAULT_SOCKET
    BY <1>1, FS_Interval
  <2> QED BY <2>1, <2>2 DEF Cap
<1>4. InUse(pool) = {} /\ \A n \in DOMAIN pool.s : pool.s[n].wb = <<>>
  <2>1. \A n \in DOMAIN pool.s : pool.s[n] = EmptySlot
    BY <1>2
  <2>2. EmptySlot.status = "invalid" /\ EmptySlot.wb = <<>>
    BY EmptySlotType
  <2> QED BY <2>1, <2>2 DEF InUse
<1>5. DOMAIN <<>> = {}
  OBVIOUS
<1>6. PoolTypes(pool)
  <2>1. pool.s \in [0 .. Cap(pool) - 1 -> SlotType]
    BY <1>2, <1>3, EmptySlotType
  <2>2. pool.ev \in [DOMAIN pool.ev -> BOOLEAN]
    BY <1>2, <1>5
  <2> QED BY <1>1, <1>2, <1>3, <2>1, <2>2 DEF PoolTypes
<1>7. Placed(pool)
  BY <1>4 DEF Placed
<1>8. EventsSet(pool)
  BY <1>2, <1>4, <1>5 DEF EventsSet
<1>9. pool.count = Cardinality(InUse(pool))
  BY <1>2, <1>4, FS_EmptySet
<1>10. PoolOK(pool)
  BY <1>6, <1>7, <1>8, <1>9 DEF PoolOK
<1>11. Opened = {} /\ Watched = {} /\ DOMAIN sockets = {} /\ DOMAIN result = {}
  BY <1>2, <1>5 DEF Opened, Watched
<1>12. <<>> \in Seq(ResultType) /\ NoEvent \in EventType
  BY EmptySeq, NoEventIs
<1>13. Types
  <2>1. conn \in [Opened -> ConnType]
    BY <1>5 DEF Opened
  <2>2. sockets \in [DOMAIN sockets -> Cell \union {Nobody} \union Table]
    BY <1>5
  <2> QED BY <1>11, <1>12, <2>1, <2>2 DEF Types
<1>14. Polling
  BY NoEventIs DEF Polling
<1>15. WritesInOrder /\ OwnerGetsAll /\ ClosedIsHeard /\ NoOrphan /\ MainDiesOfReuse
  BY <1>11 DEF WritesInOrder, OwnerGetsAll, ClosedIsHeard, NoOrphan, MainDiesOfReuse
<1>16. Rounds
  BY <1>1, <1>3, NoEventIs DEF Rounds
<1>17. Owners /\ Fresh /\ ReusedLater
  BY <1>11 DEF Owners, Fresh, ReusedLater
<1> QED BY <1>10, <1>13, <1>14, <1>15, <1>16, <1>17 DEF Live

\* Once the Lua state is closed there is no socket left.
LEMMA ExitKeeps == ASSUME Live, Exit PROVE IInv'
<1> DEFINE p == pool'
           none == {pool.s[n].id : n \in InUse(pool)}
<1>1. /\ Dispatching /\ phase' = "exited" /\ pool' = lexit(pool)
      /\ conn' = <<>> /\ sockets' = <<>> /\ result' = <<>>
      /\ UNCHANGED <<alive, ready, event>>
  BY DEF Exit
<1>2. ready' = {} /\ event' = NoEvent
  BY <1>1, WhenDispatching
<1>3. DOMAIN <<>> = {} /\ <<>> \in [{} -> ConnType]
  OBVIOUS
<1>4. /\ pool' = [s |-> pool'.s, id |-> pool'.id, count |-> pool'.count, ev |-> pool'.ev]
      /\ pool'.s = <<>> /\ pool'.id = 1 /\ pool'.count = 0
      /\ pool'.ev = Restrict(pool.ev, DOMAIN pool.ev \ none)
  BY <1>1 DEF lexit, linit
<1>5. DOMAIN pool'.ev = {} /\ pool'.ev \in [{} -> BOOLEAN]
  <2>1. DOMAIN pool.ev = none
    BY DEF Live, PoolOK, EventsSet
  <2> HIDE DEF none
  <2>2. DOMAIN pool.ev \ none = {}
    BY <2>1
  <2> QED BY <1>4, <2>2 DEF Restrict
<1>6. Cap(pool') = 0 /\ InUse(pool') = {} /\ DOMAIN pool'.s = {}
  <2>1. DOMAIN pool'.s = {}
    BY <1>3, <1>4
  <2> QED BY <2>1, FS_EmptySet DEF Cap, InUse
<1>7. Opened' = {} /\ Watched' = {} /\ DOMAIN sockets' = {} /\ DOMAIN result' = {}
  BY <1>1, <1>3, <1>5 DEF Opened, Watched
<1>8. TypeOK'
  <2>1. pool'.s \in [0 .. Cap(pool') - 1 -> SlotType]
    <3>1. 0 .. Cap(pool') - 1 = {}
      BY <1>6
    <3> QED BY <1>4, <1>6, <3>1
  <2>2. /\ pool'.id \in Nat \ {0} /\ pool'.count \in Nat /\ Cap(pool') \in Nat
    BY <1>4, <1>6
  <2>3. conn' \in [Opened' -> ConnType]
    BY <1>1, <1>3, <1>7
  <2>4. sockets' \in [DOMAIN sockets' -> Cell \union {Nobody} \union Table]
    BY <1>1, <1>3
  <2>5. event' \in [id : Opened' \union {0}, read : BOOLEAN, write : BOOLEAN]
    BY <1>2 DEF NoEvent
  <2>6. result' \in Seq(ResultType')
    BY <1>1, EmptySeq
  <2>7. alive' \subseteq Cell
    BY <1>1, Typed
  <2>8. ready' \subseteq Opened'
    BY <1>2
  <2>9. pool'.ev \in [Watched' -> BOOLEAN]
    BY <1>5, <1>7
  <2> QED BY <1>1, <1>4, <1>7, <2>1, <2>2, <2>3, <2>4, <2>5, <2>6, <2>7, <2>8, <2>9 DEF TypeOK
<1>9. IdFindsSlot'
  BY <1>4, <1>6, <1>8, FS_EmptySet DEF IdFindsSlot
<1>10. WatchedIsOpen'
  BY <1>2, <1>6, <1>7, NoEventIs DEF WatchedIsOpen
<1>11. WritesInOrder' /\ OwnerGetsAll' /\ ClosedIsHeard' /\ NoOrphan' /\ MainDiesOfReuse'
  BY <1>1, <1>7 DEF WritesInOrder, OwnerGetsAll, ClosedIsHeard, NoOrphan, MainDiesOfReuse
<1>12. Rounds'
  BY <1>1, <1>2, <1>6, NoEventIs DEF Rounds
<1>13. Owners' /\ Fresh' /\ ReusedLater'
  BY <1>1, <1>7 DEF Owners, Fresh, ReusedLater
<1> QED BY <1>8, <1>9, <1>10, <1>11, <1>12, <1>13 DEF IInv

\* It depends on the variables only.
LEMMA StutterKeeps == ASSUME IInv, UNCHANGED vars PROVE IInv'
<1>1. /\ pool' = pool /\ conn' = conn /\ sockets' = sockets /\ alive' = alive
      /\ phase' = phase /\ ready' = ready /\ event' = event /\ result' = result
  BY DEF vars
<1>2. Watched' = Watched /\ Opened' = Opened
  BY <1>1 DEF Watched, Opened
<1>3. \A w : Owner(w)' = Owner(w) /\ InTable(w)' = InTable(w) /\ InResult(w)' = InResult(w)
  BY <1>1, OwnerSame, ResultSame
<1>4. TypeOK'
  BY <1>1, <1>2 DEF IInv, IdFindsSlot, TypeOK, ResultType
<1>5. IdFindsSlot'
  BY <1>1, <1>4 DEF IInv, IdFindsSlot
<1>6. WatchedIsOpen'
  BY <1>1, <1>2 DEF IInv, WatchedIsOpen
<1>7. WritesInOrder'
  BY <1>1, <1>2 DEF IInv, WritesInOrder
<1>8. OwnerGetsAll'
  BY <1>1, <1>2, <1>3 DEF IInv, OwnerGetsAll
<1>9. ClosedIsHeard'
  BY <1>1, <1>2 DEF IInv, ClosedIsHeard
<1>10. NoOrphan'
  BY <1>1, <1>2, <1>3 DEF IInv, NoOrphan
<1>11. MainDiesOfReuse'
  BY <1>1, <1>2, <1>3 DEF IInv, MainDiesOfReuse
<1>12. Rounds'
  BY <1>1, <1>2 DEF IInv, Rounds, Known
<1>13. Owners'
  BY <1>1, <1>2, <1>3 DEF IInv, Owners, Listening
<1>14. Fresh'
  BY <1>1, <1>2, <1>3 DEF IInv, Fresh, Unheard, Announced, Listening
<1>15. ReusedLater'
  BY <1>1, <1>2 DEF IInv, ReusedLater, Announced
<1> QED BY <1>4, <1>5, <1>6, <1>7, <1>8, <1>9, <1>10, <1>11, <1>12, <1>13, <1>14, <1>15 DEF IInv

\* Nothing happens in it any more.
LEMMA ExitedKeeps ==
  ASSUME IInv, phase = "exited", Next
  PROVE  IInv'
<1>1. ready = {} /\ event = NoEvent /\ result = <<>> /\ ~event.read /\ ~event.write
  BY NoEventIs DEF IInv, Rounds
<1>2. ~Main
  BY <1>1 DEF Main, Poll, GiveAccepted, GiveData, GiveDead, Sleep, NextEvent, Results, Polled,
             Recv, RecvEof, NoMore, Accept, Send, SendFails, SendNothing, Reading, Writing
<1>3. ~Messages /\ ~Exit
  BY DEF Messages, Exit, BindFails, Connect, Listen, NewFor, Disconnect, Forward, Forwardable,
         Write, Dispatching
<1>4. ASSUME NEW c \in Cell, Die(c) PROVE IInv'
  <2>1. UNCHANGED <<pool, conn, sockets, phase, ready, event, result>> /\ alive' = alive \ {c}
    BY <1>4 DEF Die
  <2>2. TypeOK'
    BY <2>1 DEF IInv, IdFindsSlot, TypeOK, Opened, Watched, ResultType
  <2>3. IdFindsSlot'
    BY <2>1, <2>2 DEF IInv, IdFindsSlot
  <2>4. WatchedIsOpen' /\ WritesInOrder' /\ OwnerGetsAll' /\ ClosedIsHeard'
    BY <2>1 DEF IInv, WatchedIsOpen, WritesInOrder, OwnerGetsAll, ClosedIsHeard, Opened, Watched,
        Owner, Kept, InTable, InResult
  <2>5. Watched' = {}
    <3>1. Cap(pool) = 0 /\ TypeOK
      BY DEF IInv, Rounds, IdFindsSlot
    <3>2. DOMAIN pool.s = {}
      <4>1. 0 .. Cap(pool) - 1 = {}
        BY <3>1
      <4> QED BY <3>1, <4>1 DEF TypeOK
    <3>3. Watched = {}
      BY <3>2 DEF IInv, WatchedIsOpen, InUse
    <3> QED BY <2>1, <3>3 DEF Watched
  <2>6. NoOrphan' /\ MainDiesOfReuse'
    BY <2>1, <2>5 DEF NoOrphan, MainDiesOfReuse
  <2>7. Rounds' /\ Owners'
    BY <2>1 DEF IInv, Rounds, Owners, Opened, Watched, Known, Owner, Listening
  <2>8. Fresh' /\ ReusedLater'
    <3>1. DOMAIN <<>> = {}
      OBVIOUS
    <3> QED BY <1>1, <2>1, <3>1 DEF Fresh, ReusedLater
  <2> QED BY <2>2, <2>3, <2>4, <2>6, <2>7, <2>8 DEF IInv
<1> QED BY <1>2, <1>3, <1>4 DEF Next

\* Every step keeps it: of main, of the messages, the death of a cell, the exit.
LEMMA NextKeeps == IInv /\ [Next]_vars => IInv'
<1> SUFFICES ASSUME IInv, [Next]_vars PROVE IInv'
  OBVIOUS
<1>1. CASE UNCHANGED vars
  BY <1>1, StutterKeeps
<1>2. CASE phase = "exited" /\ Next
  BY <1>2, ExitedKeeps
<1>3. CASE phase # "exited" /\ Next
  <2>1. Live
    BY <1>3, LiveOfIInv
  <2>2. CASE Main
    <3>1. ASSUME NEW id \in Opened,
                 \/ \E r \in 1 .. READ_BUFFER : Recv(id, r)
                 \/ RecvEof(id) \/ NoMore(id) \/ Accept(id)
                 \/ Send(id) \/ SendFails(id) \/ SendNothing(id)
          PROVE  Live'
      BY <2>1, <3>1, RecvKeeps, RecvEofKeeps, IdleKeeps, AcceptKeeps, SendKeeps, SendFailsKeeps
    <3>2. Live'
      BY <2>1, <2>2, <3>1, PollKeeps, GiveAcceptedKeeps, GiveDataKeeps, GiveDeadKeeps,
         SleepKeeps, NextEventKeeps DEF Main
    <3> QED BY <3>2, LiveToIInv, PTL
  <2>3. CASE Messages
    <3>1. Client \subseteq Cell /\ Server \subseteq Cell
      BY DEF Cell
    <3>2. ASSUME NEW id \in Opened,
                 \/ Disconnect(id)
                 \/ \E c \in Client : Forward(id, c)
                 \/ \E n \in 1 .. MaxBytes : Write(id, n)
          PROVE  Live'
      BY <2>1, <3>2, DisconnectKeeps, ForwardKeeps, WriteKeeps
    <3>3. ASSUME NEW c \in Cell, NEW listen \in BOOLEAN, NewFor(c, listen) PROVE Live'
      BY <2>1, <3>3, NewForKeeps
    <3>4. Live'
      BY <2>1, <2>3, <3>1, <3>2, <3>3, BindFailsKeeps DEF Messages, Connect, Listen
    <3> QED BY <3>4, LiveToIInv, PTL
  <2>4. CASE Exit
    BY <2>1, <2>4, ExitKeeps
  <2>5. ASSUME NEW c \in Cell, Die(c) PROVE IInv'
    <3>1. Live'
      BY <2>1, <2>5, DieKeeps
    <3> QED BY <3>1, LiveToIInv, PTL
  <2> QED BY <1>3, <2>2, <2>3, <2>4, <2>5 DEF Next
<1> QED BY <1>1, <1>2, <1>3

-----------------------------------------------------------------------------

\* The inductive invariant holds whatever the network, the cells and their deaths do.
THEOREM Invariance == Spec => []IInv
<1>1. Init => IInv
  BY InitIs
<1>2. IInv /\ [Next]_vars => IInv'
  BY NextKeeps
<1> QED BY <1>1, <1>2, PTL DEF Spec

\* The types of the socket cell: of struct socket_pool, of the table sockets and of
\* what lpoll returns.
THEOREM TypeCorrect == Spec => []TypeOK
<1>1. IInv => TypeOK
  BY DEF IInv, IdFindsSlot
<1> QED BY <1>1, Invariance, PTL

\* expand_pool and new_socket: however often the table grows, an id modulo its size
\* finds the socket, and the count is that of the slots in use.
THEOREM IdsFindSlots == Spec => []IdFindsSlot
<1>1. IInv => IdFindsSlot
  BY DEF IInv
<1> QED BY <1>1, Invariance, PTL

\* force_close, lclose, lsend and lpoll: epoll watches the open sockets, and room to
\* write exactly while there is something to write.
THEOREM WatchedAreOpen == Spec => []WatchedIsOpen
<1>1. IInv => WatchedIsOpen
  BY DEF IInv
<1> QED BY <1>1, Invariance, PTL

\* lsend and sendout: the bytes of a socket leave in order, and none is lost while it
\* is open.
THEOREM WritesGoInOrder == Spec => []WritesInOrder
<1>1. IInv => WritesInOrder
  BY DEF IInv
<1> QED BY <1>1, Invariance, PTL

\* main and command.forward: the owners of a socket are given what is read, in order.
THEOREM OwnersGetAll == Spec => []OwnerGetsAll
<1>1. IInv => OwnerGetsAll
  BY DEF IInv
<1> QED BY <1>1, Invariance, PTL

\* A socket that the pool closes unasked has read its end, or sendout has failed.
THEOREM ClosedAreHeard == Spec => []ClosedIsHeard
<1>1. IInv => ClosedIsHeard
  BY DEF IInv
<1> QED BY <1>1, Invariance, PTL

\* An open socket is in the table of socket.lua, is being closed or announced, or is
\* forgotten because a cell has died.
THEOREM NoneOrphaned == Spec => []NoOrphan
<1>1. IInv => NoOrphan
  BY DEF IInv
<1> QED BY <1>1, Invariance, PTL

\* Main ends in one way only: the slot of a dead cell's closed socket is reused in the
\* round that tells of its end.
THEOREM MainDiesOnlyOfReuse == Spec => []MainDiesOfReuse
<1>1. IInv => MainDiesOfReuse
  BY DEF IInv
<1> QED BY <1>1, Invariance, PTL
=============================================================================
