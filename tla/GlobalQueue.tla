---------------------------- MODULE GlobalQueue ----------------------------
(***************************************************************************)
(* The lock-free ring of runnable cells that the worker threads share:     *)
(* struct global_queue, globalmq_push and globalmq_pop, and the loop body  *)
(* of a worker, _message_dispatch (hive_scheduler.c).                      *)
(*                                                                         *)
(* Each action makes one access to shared memory, so every interleaving of *)
(* the workers inside push and pop is a behaviour.  Memory is sequentially *)
(* consistent: each access the algorithm orders is a __sync builtin or is  *)
(* followed by __sync_synchronize().  The counters head and tail are       *)
(* uint32_t; slots are taken modulo MAX_GLOBAL_MQ, which divides 2^32, and *)
(* pop's compare-and-swap compares all 32 bits.  They are naturals here,   *)
(* bounded by MaxTicket: a worker that sleeps between its load of head and *)
(* its compare-and-swap while 2^32 cells are popped is left out.           *)
(***************************************************************************)
EXTENDS Naturals, Sequences, FiniteSets

CONSTANTS Worker,         \* the worker threads
          Cell,           \* the addresses a cell can be allocated at
          NoCell,         \* a null struct cell pointer
          Boot,           \* the cells pushed before the workers start
          MAX_GLOBAL_MQ,  \* slots of the ring, 0x10000 in the code
          MaxTicket       \* bound of the model on the number of pushes

ASSUME RingAssumption ==
  /\ MAX_GLOBAL_MQ \in Nat \ {0}
  /\ MaxTicket \in Nat
  /\ NoCell \notin Cell

\* Fewer cells than slots: the code never checks it, and a ring holding
\* MAX_GLOBAL_MQ cells looks empty to globalmq_pop.
ASSUME CellAssumption ==
  /\ IsFiniteSet(Cell)
  /\ Cardinality(Cell) < MAX_GLOBAL_MQ

ASSUME BootAssumption ==
  /\ Boot \in Seq(Cell)
  /\ \A i, j \in DOMAIN Boot : Boot[i] = Boot[j] => i = j

VARIABLES head, tail,     \* the next ticket to pop, the next ticket to push
          queue, flag,    \* the ring's cells, and whether each is published
          pc,             \* the line each worker is about to execute
          h,              \* pop's local head
          cell,           \* pop's local c: the cell read, then held
          item,           \* push's argument c
          t,              \* push's local tail
          live            \* the cells started and not yet quit

ring   == <<head, tail, queue, flag>>
locals == <<pc, h, cell, item, t>>
vars   == <<ring, locals, live>>

Slot == 0 .. MAX_GLOBAL_MQ - 1
GP(p) == p % MAX_GLOBAL_MQ

Popping  == {"tail", "flag", "slot", "cas"}
Pushing  == {"ticket", "store", "publish"}
Location == {"idle", "clear", "run"} \union Popping \union Pushing

\* globalmq_init, then one globalmq_push per cell that the main thread starts
\* before it creates the workers.
Init ==
  /\ head = 0
  /\ tail = Len(Boot)
  /\ queue = [s \in Slot |-> IF s < Len(Boot) THEN Boot[s + 1] ELSE NoCell]
  /\ flag = [s \in Slot |-> s < Len(Boot)]
  /\ pc = [w \in Worker |-> "idle"]
  /\ h = [w \in Worker |-> 0]
  /\ cell = [w \in Worker |-> NoCell]
  /\ item = [w \in Worker |-> NoCell]
  /\ t = [w \in Worker |-> 0]
  /\ live = {Boot[i] : i \in DOMAIN Boot}

At(w, l) == pc[w] = l
Goto(w, l) == pc' = [pc EXCEPT ![w] = l]

-----------------------------------------------------------------------------
(* globalmq_pop                                                            *)

LoadHead(w) ==
  /\ At(w, "idle")
  /\ h' = [h EXCEPT ![w] = head]
  /\ Goto(w, "tail")
  /\ UNCHANGED <<ring, cell, item, t, live>>

\* The ring looks empty: pop returns NULL.
CheckTail(w) ==
  /\ At(w, "tail")
  /\ Goto(w, IF GP(h[w]) = GP(tail) THEN "idle" ELSE "flag")
  /\ UNCHANGED <<ring, h, cell, item, t, live>>

\* Mutant: pop does not look at the flag.
CheckFlagNot(w) ==
  /\ At(w, "flag")
  /\ Goto(w, "slot")
  /\ UNCHANGED <<ring, h, cell, item, t, live>>

\* The pusher of this slot has not published it yet: pop returns NULL.
CheckFlag(w) ==
  /\ At(w, "flag")
  /\ Goto(w, IF flag[GP(h[w])] THEN "slot" ELSE "idle")
  /\ UNCHANGED <<ring, h, cell, item, t, live>>

ReadSlot(w) ==
  /\ At(w, "slot")
  /\ cell' = [cell EXCEPT ![w] = queue[GP(h[w])]]
  /\ Goto(w, "cas")
  /\ UNCHANGED <<ring, h, item, t, live>>

\* Mutant: head is incremented without a compare-and-swap.
CasHeadBlindly(w) ==
  /\ At(w, "cas")
  /\ head' = head + 1
  /\ Goto(w, "clear")
  /\ UNCHANGED <<tail, queue, flag, h, cell, item, t, live>>

\* Another worker moved head: pop returns NULL.
CasHead(w) ==
  /\ At(w, "cas")
  /\ IF head = h[w]
       THEN /\ head' = head + 1
            /\ Goto(w, "clear")
            /\ UNCHANGED cell
       ELSE /\ Goto(w, "idle")
            /\ cell' = [cell EXCEPT ![w] = NoCell]
            /\ UNCHANGED head
  /\ UNCHANGED <<tail, queue, flag, h, item, t, live>>

\* Mutants: the flag of the slot that is the head by now is cleared; the flag
\* stays raised.
ClearFlagOfHead(w) ==
  /\ At(w, "clear")
  /\ flag' = [flag EXCEPT ![GP(head)] = FALSE]
  /\ Goto(w, "run")
  /\ UNCHANGED <<head, tail, queue, h, cell, item, t, live>>

ClearFlagNot(w) ==
  /\ At(w, "clear")
  /\ Goto(w, "run")
  /\ UNCHANGED <<ring, h, cell, item, t, live>>

ClearFlag(w) ==
  /\ At(w, "clear")
  /\ flag' = [flag EXCEPT ![GP(h[w])] = FALSE]
  /\ Goto(w, "run")
  /\ UNCHANGED <<head, tail, queue, h, cell, item, t, live>>

-----------------------------------------------------------------------------
(* _message_dispatch: what cell_dispatch_message makes of the held cell    *)

\* CELL_QUIT: the cell is destroyed and not pushed again.
Retire(w) ==
  /\ At(w, "run")
  /\ live' = live \ {cell[w]}
  /\ cell' = [cell EXCEPT ![w] = NoCell]
  /\ Goto(w, "idle")
  /\ UNCHANGED <<ring, h, item, t>>

\* CELL_EMPTY or CELL_MESSAGE: the cell goes back to the ring.
PushBack(w) ==
  /\ At(w, "run")
  /\ item' = [item EXCEPT ![w] = cell[w]]
  /\ Goto(w, "ticket")
  /\ UNCHANGED <<ring, h, cell, t, live>>

\* The dispatched message launched a cell: scheduler_starttask pushes it.
Start(w, n) ==
  /\ At(w, "run")
  /\ n \notin live
  /\ live' = live \union {n}
  /\ item' = [item EXCEPT ![w] = n]
  /\ Goto(w, "ticket")
  /\ UNCHANGED <<ring, h, cell, t>>

-----------------------------------------------------------------------------
(* globalmq_push                                                           *)

TakeTicket(w) ==
  /\ At(w, "ticket")
  /\ tail < MaxTicket
  /\ t' = [t EXCEPT ![w] = tail]
  /\ tail' = tail + 1
  /\ Goto(w, "store")
  /\ UNCHANGED <<head, queue, flag, h, cell, item, live>>

\* Mutant: a worker that starts a cell pushes the one it runs.
StoreCellHeld(w) ==
  /\ At(w, "store")
  /\ queue' = [queue EXCEPT ![GP(t[w])] = cell[w]]
  /\ Goto(w, "publish")
  /\ UNCHANGED <<head, tail, flag, h, cell, item, t, live>>

StoreCell(w) ==
  /\ At(w, "store")
  /\ queue' = [queue EXCEPT ![GP(t[w])] = item[w]]
  /\ Goto(w, "publish")
  /\ UNCHANGED <<head, tail, flag, h, cell, item, t, live>>

\* After its own cell a worker looks for another; after a launched one it
\* goes on running its cell.
Publish(w) ==
  /\ At(w, "publish")
  /\ flag' = [flag EXCEPT ![GP(t[w])] = TRUE]
  /\ IF item[w] = cell[w]
       THEN /\ cell' = [cell EXCEPT ![w] = NoCell]
            /\ Goto(w, "idle")
       ELSE /\ Goto(w, "run")
            /\ UNCHANGED cell
  /\ item' = [item EXCEPT ![w] = NoCell]
  /\ UNCHANGED <<head, tail, queue, h, t, live>>

-----------------------------------------------------------------------------

Pop(w) == \/ LoadHead(w)
          \/ CheckTail(w)
          \/ CheckFlag(w)
          \/ ReadSlot(w)
          \/ CasHead(w)
          \/ ClearFlag(w)

Dispatch(w) == \/ Retire(w)
               \/ PushBack(w)
               \/ \E n \in Cell : Start(w, n)

Push(w) == \/ TakeTicket(w)
           \/ StoreCell(w)
           \/ Publish(w)

Next == \E w \in Worker : Pop(w) \/ Dispatch(w) \/ Push(w)

Spec == Init /\ [][Next]_vars

\* No worker has been lapped: no worker sits between its compare-and-swap of
\* head and its clearing of the flag while a whole ring of tickets is handed
\* out to the others.  The code relies on its ring being too long for that.
NoLap == \A w \in Worker : At(w, "clear") => tail <= h[w] + MAX_GLOBAL_MQ

TimelySpec == Init /\ [][Next /\ NoLap']_vars

-----------------------------------------------------------------------------
(* Properties                                                              *)

TypeOK ==
  /\ head \in Nat /\ tail \in Nat
  /\ queue \in [Slot -> Cell \union {NoCell}]
  /\ flag \in [Slot -> BOOLEAN]
  /\ pc \in [Worker -> Location]
  /\ h \in [Worker -> Nat]
  /\ cell \in [Worker -> Cell \union {NoCell}]
  /\ item \in [Worker -> Cell \union {NoCell}]
  /\ t \in [Worker -> Nat]
  /\ live \subseteq Cell

\* Worker w took c out of the ring and has not yet drawn a ticket to put it
\* back.
Holds(w, c) ==
  /\ cell[w] = c
  /\ \/ pc[w] \in {"clear", "run", "ticket"}
     \/ pc[w] \in {"store", "publish"} /\ item[w] # cell[w]

\* Worker w is about to push c for the first time.
Fresh(w, c) == At(w, "ticket") /\ item[w] = c /\ cell[w] # c

\* Worker w drew ticket k and its push is not complete.
Draws(w, k) == pc[w] \in {"store", "publish"} /\ t[w] = k

Queued == head .. tail - 1

Pending(k) == \E w \in Worker : Draws(w, k)

\* Ticket k, queued, is for cell c.
Stands(k, c) ==
  \/ \E w \in Worker : Draws(w, k) /\ item[w] = c
  \/ ~Pending(k) /\ queue[GP(k)] = c

\* An actor is single threaded: a cell's lua_State is never run by two
\* workers at once, so no two workers hold the same cell after their pops.
MutualExclusion ==
  \A v, w \in Worker, c \in Cell : Holds(v, c) /\ Holds(w, c) => v = w

\* A cell that was started and has not quit is never lost: it waits under a
\* ticket between head and tail, or a worker holds it, or a worker is just
\* about to push it for the first time.
NoCellLost ==
  \A c \in live : \/ \E k \in Queued : Stands(k, c)
                  \/ \E w \in Worker : Holds(w, c)
                  \/ \E w \in Worker : Fresh(w, c)

\* The comment on flag: it "marks whether the slot of queue is in use".  The
\* slot of a queued ticket whose push is complete is in use.
FlagMarksUse == \A k \in Queued : ~Pending(k) => flag[GP(k)]

\* The cells in the ring, the next to be popped first, and those that the workers
\* run.
waiting == [i \in 1 .. tail - head |-> CHOOSE c \in Cell : Stands(head + i - 1, c)]
running == [w \in Worker |-> IF Holds(w, cell[w]) THEN cell[w] ELSE NoCell]

\* The ring implements the first-in first-out line of RunQueue: a push takes
\* effect when it draws its ticket, a pop when its compare-and-swap succeeds.
Line == INSTANCE RunQueue

ImplementsRunQueue == Line!Spec

-----------------------------------------------------------------------------
(* The inductive invariant behind MutualExclusion and NoCellLost           *)

\* What the workers carry between two lines of push and pop.
Carried ==
  \A w \in Worker :
    /\ pc[w] \in {"clear", "run"} \union Pushing => cell[w] \in Cell
    /\ pc[w] \in Pushing => item[w] \in Cell

\* Every unfinished push has a queued ticket of its own, and before it raises
\* the flag its cell is in the slot.
Tickets ==
  /\ head <= tail
  /\ \A w \in Worker : Draws(w, t[w]) => t[w] \in Queued
  /\ \A v, w \in Worker : Draws(v, t[v]) /\ Draws(w, t[v]) => v = w
  /\ \A w \in Worker : At(w, "publish") => queue[GP(t[w])] = item[w]

\* A raised flag belongs to a queued ticket whose push is complete, or to a
\* popped one whose worker has not cleared it yet.
Flags ==
  /\ FlagMarksUse
  /\ \A k \in Queued : ~Pending(k) => queue[GP(k)] \in Cell
  /\ \A s \in Slot : flag[s] =>
       \/ \E k \in Queued : ~Pending(k) /\ GP(k) = s
       \/ \E w \in Worker : At(w, "clear") /\ GP(h[w]) = s

Clearing ==
  /\ NoLap
  /\ \A w \in Worker : At(w, "clear") => h[w] < head

\* What a popping worker has checked stays true while head is what it read.
Checked ==
  \A w \in Worker :
    /\ pc[w] \in Popping => h[w] <= head
    /\ pc[w] \in {"flag", "slot", "cas"} /\ h[w] = head => head < tail
    /\ pc[w] \in {"slot", "cas"} /\ h[w] = head => ~Pending(head)
    /\ At(w, "cas") /\ h[w] = head => cell[w] = queue[GP(head)]

\* A live cell is in one place only.
OnePlace ==
  \A c \in Cell :
    /\ \A j, k \in Queued : Stands(j, c) /\ Stands(k, c) => j = k
    /\ \A k \in Queued, w \in Worker : Stands(k, c) => ~Holds(w, c)
    /\ \A k \in Queued, w \in Worker : Stands(k, c) => ~Fresh(w, c)
    /\ \A v, w \in Worker : Holds(v, c) => ~Fresh(w, c)
    /\ \A v, w \in Worker : Fresh(v, c) /\ Fresh(w, c) => v = w

\* Whatever is in the ring or carried is live.
OnlyLive ==
  \A c \in Cell :
    /\ \A k \in Queued : Stands(k, c) => c \in live
    /\ \A w \in Worker : Holds(w, c) => c \in live
    /\ \A w \in Worker : Fresh(w, c) => c \in live

IInv == /\ TypeOK
        /\ Carried /\ Tickets /\ Flags /\ Clearing /\ Checked
        /\ OnePlace /\ MutualExclusion
        /\ OnlyLive /\ NoCellLost
=============================================================================
