--------------------------- MODULE CellLifecycle ---------------------------
(***************************************************************************)
(* The life of hive's cells, from cell_new to cell_destroy, under the      *)
(* threads of the scheduler: their reference counts, their close and quit  *)
(* flags, their message queues and Lua states (hive_cell.c), the threads   *)
(* that dispatch, launch, kill and destroy them (hive_scheduler.c,         *)
(* hive_system_lib.c), and the start and the end of the process.           *)
(*                                                                         *)
(* What a cell's Lua code does is a free choice among the calls it can     *)
(* make: send a message with cells in it, launch and kill (the system cell *)
(* only), and lose its last use of a cell.  The critical sections under a  *)
(* cell's spin lock are single steps, atomic increments and the unlocked   *)
(* write of quit are steps of their own.  The ring of runnable cells is    *)
(* the first-in first-out line of RunQueue, which GlobalQueue implements;  *)
(* a message queue is the sequence that MessageQueue implements.           *)
(***************************************************************************)
EXTENDS Naturals, Sequences, FiniteSets, FiniteSetsExt, SequencesExt

CONSTANTS Worker,    \* the worker threads
          main,      \* the thread that called scheduler_start
          Cell,      \* the addresses a struct cell can be allocated at
          NoCell,    \* a null struct cell pointer
          system,    \* where the system cell is allocated
          Boot,      \* the cells that system.lua launches while it loads
          Message,   \* the sets of cells that a message may have packed in it
          MaxQueue,  \* bound of the model on the messages in one queue
          MaxTotal,  \* bound of the model on total, which failed launches inflate
          Lagging,   \* bound of the model: the cells that finalize a userdata some time
                     \* after they have collected it; the others do so at once
          MaxLeak    \* bound of the model on failed calls of data_pack

ASSUME ThreadAssumption == main \notin Worker /\ IsFiniteSet(Worker)
ASSUME CellAssumption ==
  /\ IsFiniteSet(Cell) /\ NoCell \notin Cell
  /\ system \in Cell
  /\ Boot \subseteq Cell \ {system}
  /\ Message \subseteq SUBSET Cell /\ {} \in Message
  /\ Lagging \subseteq Cell
ASSUME BoundAssumption == MaxQueue \in Nat /\ MaxTotal \in Nat /\ MaxLeak \in Nat

Thread == Worker \union {main}

VARIABLES alloc,   \* the addresses of the cells not yet freed
          ref,     \* c->ref
          L,       \* c->L is not null
          close,   \* c->close
          quit,    \* c->quit
          mq,      \* c->mq: the messages, each the set of cells packed in it
          map,     \* the cells that c's Lua state has a userdata for
          dying,   \* those it has a userdata for that awaits its finalizer
          leaked,  \* history: references that nobody can give back any more
          ring,    \* the runnable cells, gmq->queue from head to tail
          total,   \* gmq->total
          pc,      \* where each thread is
          cur,     \* the cell a thread dispatches (main: the system cell)
          new,     \* the cell a thread is loading in cell_new
          found,   \* whether a worker dispatched a message in this round
          zero,    \* the cell whose count a thread has just taken to zero
          timer    \* "unborn", "ticking" or "stopped"

cells   == <<alloc, ref, L, close, quit, mq, map, dying, leaked>>
threads == <<pc, cur, new, found, zero>>
vars    == <<cells, ring, total, threads, timer>>

Location == {"unborn", "idle", "lock", "run", "load", "trash", "closing",
             "failing", "destroy", "dec", "back", "join", "returned", "done"}

\* The cell whose Lua code thread w is executing.
Actor(w) == IF new[w] # NoCell THEN new[w] ELSE cur[w]

\* The assertions of cell_destroy, where w is about to call it.  They are compiled
\* in: one that fails aborts the process, and no thread takes another step.
Asserted(w) == ref[Actor(w)] = 0 /\ ~L[Actor(w)]

Aborted == \E w \in Thread : pc[w] = "destroy" /\ zero[w] = NoCell /\ ~Asserted(w)

At(w, l) == pc[w] = l /\ zero[w] = NoCell /\ ~Aborted
Goto(w, l) == pc' = [pc EXCEPT ![w] = l]

\* Thread w is executing Lua code: a message's handlers, or a main chunk.
InLua(w) == At(w, "run") \/ At(w, "load") \/ At(w, "trash")

\* Where the system cell's code was when it called llaunch.
Caller == IF L[system] THEN "run" ELSE "trash"

-----------------------------------------------------------------------------
(* Reference counts                                                        *)

Grabbed(r, x) == [r EXCEPT ![x] = @ + 1]

\* cell_release: the decrement.  Whoever takes the count to zero then sets
\* quit, in a step of its own (SetQuit).
Release(w, x) ==
  /\ ref' = [ref EXCEPT ![x] = @ - 1]
  /\ zero' = [zero EXCEPT ![w] = IF ref[x] = 1 THEN x ELSE NoCell]

\* Mutant: the count reaches zero and nobody notices.
SetQuitForgotten(w) ==
  /\ zero[w] # NoCell /\ ~Aborted
  /\ zero' = [zero EXCEPT ![w] = NoCell]
  /\ UNCHANGED <<cells, ring, total, pc, cur, new, found, timer>>

SetQuit(w) ==
  /\ zero[w] # NoCell /\ ~Aborted
  /\ quit' = [quit EXCEPT ![zero[w]] = TRUE]
  /\ zero' = [zero EXCEPT ![w] = NoCell]
  /\ UNCHANGED <<alloc, ref, L, close, mq, map, dying, leaked, ring, total, pc, cur,
                 new, found, timer>>

\* data_pack takes a reference for each cell it packs.  Mutant: it takes none.
PackedUncounted(r, msg) == r

Packed(r, msg) == [x \in Cell |-> IF x \in msg THEN r[x] + 1 ELSE r[x]]

\* data_unpack in c's Lua state: a packed cell that c has a userdata for
\* already gives its reference back, the others pass theirs to a new userdata.
\* No count reaches zero here: c's userdata still counts.
\* Mutants: without cell_release after cell_touserdata; releasing all it finds.
UnpackedUnreleased(r, c, msg) ==
  [x \in Cell |-> IF x \in msg \ map[c] THEN r[x] + 1 ELSE r[x]]

UnpackedTwice(r, c, msg) == [x \in Cell |-> IF x \in msg THEN r[x] - 1 ELSE r[x]]

Unpacked(r, c, msg) ==
  [x \in Cell |-> IF x \in msg \intersect map[c] THEN r[x] - 1 ELSE r[x]]

-----------------------------------------------------------------------------
(* The count of cells                                                      *)

\* Mutant: a launched cell is not counted.
NoInc == UNCHANGED total

globalmq_inc == total' = total + 1

\* Mutant: a quitting cell is uncounted twice.
DecTwice == total' = total - 2

globalmq_dec == total' = total - 1

-----------------------------------------------------------------------------
(* Starting: scheduler_start, with system.lua's start()                    *)

Init ==
  /\ alloc = {system}
  /\ ref = [c \in Cell |-> IF c = system THEN 1 ELSE 0]
  /\ L = [c \in Cell |-> c = system]
  /\ close = [c \in Cell |-> FALSE]
  /\ quit = [c \in Cell |-> FALSE]
  /\ mq = [c \in Cell |-> <<>>]
  /\ map = [c \in Cell |-> IF c = system THEN {system} ELSE {}]
  /\ dying = [c \in Cell |-> {}]
  /\ leaked = [c \in Cell |-> 0]
  /\ ring = <<>>
  /\ total = 1
  /\ pc = [w \in Thread |-> IF w = main THEN "run" ELSE "unborn"]
  /\ cur = [w \in Thread |-> IF w = main THEN system ELSE NoCell]
  /\ new = [w \in Thread |-> NoCell]
  /\ found = [w \in Thread |-> FALSE]
  /\ zero = [w \in Thread |-> NoCell]
  /\ timer = "unborn"

\* system.lua has loaded: the system cell joins the ring, the threads start.
StartThreads ==
  /\ At(main, "run")
  /\ ToSet(ring) = Boot
  /\ ring' = Append(ring, system)
  /\ pc' = [w \in Thread |-> IF w = main THEN "join" ELSE "idle"]
  /\ cur' = [cur EXCEPT ![main] = NoCell]
  /\ timer' = "ticking"
  /\ UNCHANGED <<cells, total, new, found, zero>>

-----------------------------------------------------------------------------
(* cell_dispatch_message                                                   *)

Take(w) ==
  /\ At(w, "idle")
  /\ ring # <<>>
  /\ cur' = [cur EXCEPT ![w] = Head(ring)]
  /\ ring' = Tail(ring)
  /\ Goto(w, "lock")
  /\ UNCHANGED <<cells, total, new, found, zero, timer>>

\* Mutant: a killed cell is taken for one that nobody refers to.
DispatchQuitOnClose(w) ==
  /\ At(w, "lock")
  /\ quit[cur[w]] \/ close[cur[w]]
  /\ Goto(w, "destroy")
  /\ UNCHANGED <<cells, ring, total, cur, new, found, zero, timer>>

\* Nobody refers to the cell any more: it is to be destroyed.
DispatchQuit(w) ==
  /\ At(w, "lock")
  /\ quit[cur[w]]
  /\ Goto(w, "destroy")
  /\ UNCHANGED <<cells, ring, total, cur, new, found, zero, timer>>

\* The cell was killed: its messages are dispatched one last time.
DispatchClose(w) ==
  /\ At(w, "lock")
  /\ ~quit[cur[w]] /\ close[cur[w]] /\ L[cur[w]]
  /\ L' = [L EXCEPT ![cur[w]] = FALSE]
  /\ ref' = Grabbed(ref, cur[w])
  /\ Goto(w, "trash")
  /\ UNCHANGED <<alloc, close, quit, mq, map, dying, leaked, ring, total, cur, new,
                 found, zero, timer>>

\* There is no message, or no Lua state to give one to.
DispatchEmpty(w) ==
  /\ At(w, "lock")
  /\ ~quit[cur[w]]
  /\ ~L[cur[w]] \/ (mq[cur[w]] = <<>> /\ ~close[cur[w]])
  /\ mq' = IF mq[cur[w]] = <<>> THEN mq ELSE [mq EXCEPT ![cur[w]] = Tail(@)]
  /\ Goto(w, "back")
  /\ UNCHANGED <<alloc, ref, L, close, quit, map, dying, leaked, ring, total, cur, new,
                 found, zero, timer>>

\* mq_pop and data_unpack of the next message of c, whose count is r.
NextMessage(c, r) ==
  /\ mq[c] # <<>>
  /\ mq' = [mq EXCEPT ![c] = Tail(@)]
  /\ ref' = Unpacked(r, c, Head(mq[c]))
  /\ map' = [map EXCEPT ![c] = @ \union Head(mq[c])]

DispatchMessage(w) ==
  /\ At(w, "lock")
  /\ ~quit[cur[w]] /\ ~close[cur[w]] /\ L[cur[w]]
  /\ NextMessage(cur[w], Grabbed(ref, cur[w]))
  /\ Goto(w, "run")
  /\ UNCHANGED <<alloc, L, close, quit, dying, leaked, ring, total, cur, new, found,
                 zero, timer>>

\* The handlers of the message have returned.
EndMessage(w) ==
  /\ At(w, "run") /\ w # main
  /\ Release(w, cur[w])
  /\ found' = [found EXCEPT ![w] = TRUE]
  /\ Goto(w, "back")
  /\ UNCHANGED <<alloc, L, close, quit, mq, map, dying, leaked, ring, total, cur, new,
                 timer>>

\* _message_dispatch puts the cell back.
\* Mutants: not if it was killed meanwhile; not if it has no message.
PushBackOpen(w) ==
  /\ At(w, "back")
  /\ ring' = IF close[cur[w]] THEN ring ELSE Append(ring, cur[w])
  /\ cur' = [cur EXCEPT ![w] = NoCell]
  /\ Goto(w, "idle")
  /\ UNCHANGED <<cells, total, new, found, zero, timer>>

PushBackBusy(w) ==
  /\ At(w, "back")
  /\ ring' = IF mq[cur[w]] = <<>> THEN ring ELSE Append(ring, cur[w])
  /\ cur' = [cur EXCEPT ![w] = NoCell]
  /\ Goto(w, "idle")
  /\ UNCHANGED <<cells, total, new, found, zero, timer>>

PushBack(w) ==
  /\ At(w, "back")
  /\ ring' = Append(ring, cur[w])
  /\ cur' = [cur EXCEPT ![w] = NoCell]
  /\ Goto(w, "idle")
  /\ UNCHANGED <<cells, total, new, found, zero, timer>>

-----------------------------------------------------------------------------
(* Closing a Lua state and destroying its cell                             *)

\* trash_msg: the next message left in the queue of a killed cell.
TrashMessage(w) ==
  /\ At(w, "trash")
  /\ NextMessage(cur[w], ref)
  /\ UNCHANGED <<alloc, L, close, quit, dying, leaked, ring, total, threads, timer>>

\* The exit message, on port 5, has been dispatched as well.
EndTrash(w) ==
  /\ At(w, "trash")
  /\ mq[cur[w]] = <<>>
  /\ Release(w, cur[w])
  /\ Goto(w, "closing")
  /\ UNCHANGED <<alloc, L, close, quit, mq, map, dying, leaked, ring, total, cur, new,
                 found, timer>>

\* lrelease: the finalizer of a userdata that was collected before, or of every one
\* when lua_close has begun.
Closing(w) == At(w, "closing") \/ At(w, "failing")

Finalize(w, x) ==
  /\ \/ /\ Closing(w) \/ InLua(w)
        /\ x \in dying[Actor(w)]
        /\ dying' = [dying EXCEPT ![Actor(w)] = @ \ {x}]
        /\ UNCHANGED map
     \/ /\ Closing(w)
        /\ x \in map[Actor(w)]
        /\ map' = [map EXCEPT ![Actor(w)] = @ \ {x}]
        /\ UNCHANGED dying
  /\ Release(w, x)
  /\ UNCHANGED <<alloc, L, close, quit, mq, leaked, ring, total, pc, cur, new,
                 found, timer>>

EndClosing(w) ==
  /\ At(w, "closing")
  /\ map[cur[w]] = {} /\ dying[cur[w]] = {}
  /\ Goto(w, "back")
  /\ UNCHANGED <<cells, ring, total, cur, new, found, zero, timer>>

\* The error path of cell_new, once it has closed the Lua state.
EndFailing(w) ==
  /\ At(w, "failing")
  /\ map[Actor(w)] = {} /\ dying[Actor(w)] = {}
  /\ L' = [L EXCEPT ![Actor(w)] = FALSE]
  /\ Goto(w, "destroy")
  /\ UNCHANGED <<alloc, ref, close, quit, mq, map, dying, leaked, ring, total, cur, new,
                 found, zero, timer>>

\* A cell that failed to load may have sent itself messages: the references they
\* hold are lost with its queue.
Dropped(c) ==
  [x \in Cell |-> leaked[x] + Cardinality({i \in DOMAIN mq[c] : x \in mq[c][i]})]

\* cell_destroy, called by a dispatch or by cell_new.  When system.lua could
\* not launch a cell it raises an error, and the system cell fails in turn.
Destroy(w) ==
  /\ At(w, "destroy")
  /\ alloc' = alloc \ {Actor(w)}
  /\ quit' = [quit EXCEPT ![Actor(w)] = FALSE]
  /\ close' = [close EXCEPT ![Actor(w)] = FALSE]
  /\ mq' = [mq EXCEPT ![Actor(w)] = <<>>]
  /\ leaked' = Dropped(Actor(w))
  /\ new' = [new EXCEPT ![w] = NoCell]
  /\ IF new[w] # NoCell
       THEN /\ Goto(w, IF w = main THEN "failing" ELSE Caller)
            /\ UNCHANGED cur
       ELSE /\ Goto(w, IF w = main THEN "returned" ELSE "dec")
            /\ cur' = [cur EXCEPT ![w] = NoCell]
  /\ UNCHANGED <<ref, L, map, dying, ring, total, found, zero, timer>>

\* globalmq_dec, after CELL_QUIT.
Decrement(w) ==
  /\ At(w, "dec")
  /\ globalmq_dec
  /\ Goto(w, "idle")
  /\ UNCHANGED <<cells, ring, cur, new, found, zero, timer>>

-----------------------------------------------------------------------------
(* What Lua code does                                                      *)

\* cell_send, under the lock of cell x.  Mutant: only a quitting cell refuses.
AcceptsClosed(x) == ~quit[x] /\ Len(mq[x]) < MaxQueue

Accepts(x) == ~quit[x] /\ ~close[x] /\ Len(mq[x]) < MaxQueue

\* lsend.  A send to a closed cell changes nothing: it unpacks what it packed
\* and raises an error.
Send(w, x, msg) ==
  /\ InLua(w)
  /\ x \in map[Actor(w)] /\ msg \subseteq map[Actor(w)]
  /\ Accepts(x)
  /\ ref' = Packed(ref, msg)
  /\ mq' = [mq EXCEPT ![x] = Append(@, msg)]
  /\ UNCHANGED <<alloc, L, close, quit, map, dying, leaked, ring, total, threads, timer>>

\* Bound of the model.
MayLeak == MapThenSumSet(LAMBDA c : leaked[c], Cell) < MaxLeak

\* data_pack meets a value it does not support after it has packed cell x:
\* the block is freed with the reference it took.
FailToPack(w, x) ==
  /\ InLua(w)
  /\ x \in map[Actor(w)]
  /\ MayLeak
  /\ ref' = Grabbed(ref, x)
  /\ leaked' = [leaked EXCEPT ![x] = @ + 1]
  /\ UNCHANGED <<alloc, L, close, quit, mq, map, dying, ring, total, threads, timer>>

\* The garbage collector finds that the code no longer uses a userdata: it leaves
\* the weak cell_map at once, and a message may make another one before it is
\* finalized.  cell.self and cell.system are never collected before lua_close.
Collect(w, x) ==
  /\ InLua(w)
  /\ x \in map[Actor(w)] \ {Actor(w), system}
  /\ map' = [map EXCEPT ![Actor(w)] = @ \ {x}]
  /\ IF Actor(w) \in Lagging /\ x \notin dying[Actor(w)]
       THEN /\ dying' = [dying EXCEPT ![Actor(w)] = @ \union {x}]
            /\ UNCHANGED <<ref, zero>>
       ELSE Release(w, x) /\ UNCHANGED dying
  /\ UNCHANGED <<alloc, L, close, quit, mq, leaked, ring, total, pc, cur, new,
                 found, timer>>

\* lkill, a function of the system cell: cell_close.  Nothing but convention keeps
\* Lua code from killing the system cell; here it does not.
Kill(w, x) ==
  /\ InLua(w) /\ Actor(w) = system
  /\ x \in map[system]
  /\ x # system
  /\ close' = [close EXCEPT ![x] = TRUE]
  /\ UNCHANGED <<alloc, ref, L, quit, mq, map, dying, leaked, ring, total, threads,
                 timer>>

\* llaunch, a function of the system cell: scheduler_newtask counts the cell,
\* cell_new creates it and starts to load its main chunk.
Launch(w, n) ==
  /\ InLua(w) /\ Actor(w) = system
  /\ n \notin alloc
  /\ w = main => n \in Boot
  /\ total < MaxTotal
  /\ globalmq_inc
  /\ alloc' = alloc \union {n}
  /\ L' = [L EXCEPT ![n] = TRUE]
  /\ map' = [map EXCEPT ![n] = {n, system}]
  /\ ref' = [ref EXCEPT ![n] = 1, ![system] = @ + 1]
  /\ new' = [new EXCEPT ![w] = n]
  /\ Goto(w, "load")
  /\ UNCHANGED <<close, quit, mq, dying, leaked, ring, cur, found, zero, timer>>

\* The main chunk has run: the system cell gets a userdata for the new cell,
\* and scheduler_starttask pushes it.
EndLoad(w) ==
  /\ At(w, "load")
  /\ map' = [map EXCEPT ![system] = @ \union {new[w]}]
  /\ ref' = IF new[w] \in map[system] THEN ref ELSE Grabbed(ref, new[w])
  /\ ring' = Append(ring, new[w])
  /\ new' = [new EXCEPT ![w] = NoCell]
  /\ Goto(w, Caller)
  /\ UNCHANGED <<alloc, L, close, quit, mq, dying, leaked, total, cur, found, zero,
                 timer>>

\* The main chunk is not found, fails, or sets no dispatcher, whatever it has sent,
\* and to whom, until then.
FailLoad(w) ==
  /\ At(w, "load")
  /\ Goto(w, "failing")
  /\ UNCHANGED <<cells, ring, total, cur, new, found, zero, timer>>

-----------------------------------------------------------------------------
(* The timer, and the end: only the system cell is left                    *)

\* send_tick: cell_send through the timer's own pointer, which is not counted.
Tick ==
  /\ timer = "ticking" /\ ~Aborted
  /\ Accepts(system)
  /\ mq' = [mq EXCEPT ![system] = Append(@, {})]
  /\ UNCHANGED <<alloc, ref, L, close, quit, map, dying, leaked, ring, total, threads,
                 timer>>

StopTimer ==
  /\ timer = "ticking" /\ ~Aborted
  /\ total <= 1
  /\ timer' = "stopped"
  /\ UNCHANGED <<cells, ring, total, threads>>

\* _worker at the end of a round of dispatches: it stops if the round found no
\* message and total is down to one.  A round is total dispatches long; here it
\* may end between any two.
\* Mutant: ret is not set back to 1 at the start of a round.
EndRoundKept(w) ==
  /\ At(w, "idle")
  /\ Goto(w, IF ~found[w] /\ total <= 1 THEN "done" ELSE "idle")
  /\ UNCHANGED <<cells, ring, total, cur, new, found, zero, timer>>

EndRound(w) ==
  /\ At(w, "idle")
  /\ Goto(w, IF ~found[w] /\ total <= 1 THEN "done" ELSE "idle")
  /\ found' = [found EXCEPT ![w] = FALSE]
  /\ UNCHANGED <<cells, ring, total, cur, new, zero, timer>>

\* scheduler_start has joined its threads: it closes the system cell.
Return ==
  /\ At(main, "join")
  /\ timer = "stopped" /\ \A w \in Worker : At(w, "done")
  /\ close' = [close EXCEPT ![system] = TRUE]
  /\ Goto(main, "returned")
  /\ UNCHANGED <<alloc, ref, L, quit, mq, map, dying, leaked, ring, total, cur, new,
                 found, zero, timer>>

\* The process is over, by itself or by a failed assertion.
Stopped == (At(main, "returned") \/ Aborted) /\ UNCHANGED vars

-----------------------------------------------------------------------------

Dispatch(w) == \/ Take(w)
               \/ DispatchQuit(w)
               \/ DispatchClose(w)
               \/ DispatchEmpty(w)
               \/ DispatchMessage(w)
               \/ EndMessage(w)
               \/ PushBack(w)

Dispose(w) == \/ SetQuit(w)
              \/ TrashMessage(w)
              \/ EndTrash(w)
              \/ \E x \in Cell : Finalize(w, x)
              \/ EndClosing(w)
              \/ EndFailing(w)
              \/ Destroy(w)
              \/ Decrement(w)

Loading(w) == EndLoad(w) \/ FailLoad(w)

Call(w) == \/ \E x \in Cell, msg \in Message : Send(w, x, msg)
           \/ \E x \in Cell : FailToPack(w, x)
           \/ \E x \in Cell : Collect(w, x)
           \/ \E x \in Cell : Kill(w, x)
           \/ \E n \in Cell : Launch(w, n)

Next == \/ \E w \in Thread : Dispatch(w) \/ Dispose(w) \/ Loading(w) \/ Call(w)
        \/ \E w \in Worker : EndRound(w)
        \/ StartThreads \/ Tick \/ StopTimer \/ Return \/ Stopped

Spec == Init /\ [][Next]_vars

\* A thread with something to do goes on, handlers and main chunks end whatever
\* they call on the way, a round of a worker ends, and system.lua launches what
\* it has to.  Nothing makes a cell send, kill or launch, nor the clock tick.
Progress(w) == Dispatch(w) \/ Dispose(w) \/ Loading(w)
Starting == StartThreads \/ \E n \in Boot : Launch(main, n)

Fairness ==
  /\ \A w \in Thread : WF_vars(Progress(w))
  /\ \A w \in Worker : SF_vars(EndMessage(w)) /\ SF_vars(EndRound(w))
  /\ WF_vars(Starting) /\ WF_vars(StopTimer) /\ WF_vars(Return)

FairSpec == Spec /\ Fairness

-----------------------------------------------------------------------------
(* Properties                                                              *)

TypeOK ==
  /\ alloc \subseteq Cell
  /\ ref \in [Cell -> Nat] /\ leaked \in [Cell -> Nat]
  /\ L \in [Cell -> BOOLEAN]
  /\ close \in [Cell -> BOOLEAN] /\ quit \in [Cell -> BOOLEAN]
  /\ mq \in [Cell -> Seq(Message)]
  /\ map \in [Cell -> SUBSET Cell] /\ dying \in [Cell -> SUBSET Cell]
  /\ ring \in Seq(Cell)
  /\ total \in Nat
  /\ pc \in [Thread -> Location]
  /\ cur \in [Thread -> Cell \union {NoCell}]
  /\ new \in [Thread -> Cell \union {NoCell}]
  /\ found \in [Thread -> BOOLEAN]
  /\ zero \in [Thread -> Cell \union {NoCell}]
  /\ timer \in {"unborn", "ticking", "stopped"}

\* The reference that cell_dispatch_message takes for the time of a dispatch.
Dispatching(w, c) ==
  /\ w # main /\ cur[w] = c
  /\ pc[w] \in {"run", "trash", "load"} \/ new[w] # NoCell

\* Where c is packed: <<the cell whose queue, the position>>.
InMessages(c) == {p \in UNION {{d} \X DOMAIN mq[d] : d \in Cell} :
                 c \in mq[p[1]][p[2]]}

\* A count is exactly the userdata, the messages in flight and the dispatches
\* that refer to the cell: what neither sender nor receiver, nor a collector
\* on a third thread, may get wrong.
RefAccounting ==
  \A c \in alloc :
    ref[c] = Cardinality({d \in Cell : c \in map[d]})
             + Cardinality({d \in Cell : c \in dying[d]})
             + Cardinality(InMessages(c))
             + Cardinality({w \in Thread : Dispatching(w, c)})
             + leaked[c]

\* No freed cell is reachable: from a Lua state, a message, the ring, a thread,
\* or the uncounted pointers of the timer and of scheduler_start.
NoDangling ==
  /\ \A c \in Cell : map[c] \union dying[c] \subseteq alloc /\ ToSet(mq[c]) \subseteq SUBSET alloc
  /\ ToSet(ring) \subseteq alloc
  /\ \A w \in Thread : {cur[w], new[w], zero[w]} \subseteq alloc \union {NoCell}
  /\ timer = "ticking" \/ pc[main] = "join" => system \in alloc

\* What the assertions of cell_destroy say: no reference and no Lua state is left
\* of a cell that is destroyed.  The error path of cell_new does not ensure it.
DestroyAssert == ~Aborted

\* Thread w destroys a cell for cell_new, and not for a dispatch that found it quit.
FailedToLoad(w) == pc[w] = "destroy" /\ (new[w] # NoCell \/ w = main)

\* An assertion of cell_destroy fails only for a cell that failed to load, never
\* for one that quits, and it is always the one on the count.  The references to a
\* launched cell that is left with some are in messages that its main chunk packed
\* it in, to itself or to the system cell: no Lua state would ever use a freed cell.
AssertFailsOnlyInLoad ==
  \A w \in Thread : pc[w] = "destroy" /\ zero[w] = NoCell /\ ~Asserted(w) =>
    /\ FailedToLoad(w) /\ ~L[Actor(w)]
    /\ new[w] # NoCell => \A d \in Cell :
         /\ new[w] \notin map[d] \union dying[d]
         /\ d \notin {new[w], system} => \A i \in DOMAIN mq[d] : new[w] \notin mq[d][i]

\* trash_msg's comment: no new message comes in once close is set.  So nothing
\* waits in the queue of a cell whose Lua state no longer dispatches, where it
\* would be popped and dropped with the references it holds, but what a cell that
\* fails to load has sent itself.
NothingStranded ==
  \A c \in alloc : mq[c] # <<>> =>
    \/ L[c]
    \/ \E w \in Thread : cur[w] = c /\ (pc[w] = "trash" \/ new[w] # NoCell)
    \/ \E w \in Thread : FailedToLoad(w) /\ Actor(w) = c

\* A reference that a failed data_pack took, or that a cell which failed to load
\* left in its queue, keeps its cell for ever.
LeakIsForEver == \A c \in Cell : leaked[c] > 0 => c \in alloc /\ ~quit[c]

\* The threads stop by themselves only when at most the system cell is left.
StopsOnlyWhenDone ==
  (\A w \in Worker : pc[w] = "done") => alloc \subseteq {system}

-----------------------------------------------------------------------------
(* The inductive invariant                                                 *)

Booting == pc[main] \in {"run", "load", "failing", "destroy"}

\* main loads system.lua alone and joins the workers; a worker has a cell while it
\* is between Take and the end of the dispatch, and only the system cell's thread
\* loads another.
Phases ==
  /\ pc[main] \in {"run", "load", "failing", "destroy", "join", "returned"}
  /\ cur[main] = IF Booting THEN system ELSE NoCell
  /\ \A w \in Worker :
       /\ pc[w] \notin {"join", "returned"}
       /\ Booting => pc[w] = "unborn"
       /\ pc[main] = "join" => pc[w] # "unborn"
       /\ pc[main] = "returned" => pc[w] \in {"unborn", "done"}
       /\ cur[w] = NoCell <=> pc[w] \in {"unborn", "idle", "dec", "done"}
       /\ pc[w] = "failing" => new[w] # NoCell
  /\ \A w \in Thread :
       /\ pc[w] = "load" => new[w] # NoCell
       /\ new[w] # NoCell => pc[w] \in {"load", "failing", "destroy"} /\ cur[w] = system
       /\ zero[w] # NoCell =>
            pc[w] \in {"run", "load", "trash", "closing", "failing", "back"}
  /\ timer = "ticking" => pc[main] = "join"

\* A cell is once in the ring, or in the hands of one thread.
Apart ==
  /\ \A i, j \in DOMAIN ring : ring[i] = ring[j] => i = j
  /\ \A i \in DOMAIN ring, w \in Thread : ring[i] # cur[w] /\ ring[i] # new[w]
  /\ \A v, w \in Thread :
       /\ cur[v] = cur[w] /\ cur[v] # NoCell => v = w
       /\ new[v] = new[w] /\ new[v] # NoCell => v = w
       /\ new[w] # NoCell => cur[v] # new[w]

\* An address where no cell is allocated.
Free ==
  \A c \in Cell \ alloc :
    /\ ~L[c] /\ ~close[c] /\ ~quit[c]
    /\ mq[c] = <<>> /\ map[c] = {} /\ dying[c] = {} /\ leaked[c] = 0
    /\ ref[c] = 0

\* The Lua state of a cell keeps the userdata of the cell itself and of the system
\* cell until it is closed, and has none when it has been closed.
KeepsOwn ==
  \A c \in Cell : L[c] =>
    {c, system} \subseteq map[c] \/ \E w \in Thread : pc[w] = "failing" /\ Actor(w) = c

ClosedIsEmpty ==
  \A c \in Cell : ~L[c] =>
    \/ map[c] = {} /\ dying[c] = {}
    \/ \E w \in Worker : cur[w] = c /\ pc[w] \in {"trash", "closing"}

\* Collect spares them.
OwnNotDying == \A c \in Cell : dying[c] \intersect {c, system} = {}

\* A cell has no Lua state because it was killed, because it quits or because it
\* failed to load.
ClosedIsMarked ==
  \A c \in alloc : ~L[c] =>
    close[c] \/ quit[c] \/ \E w \in Thread : FailedToLoad(w) /\ Actor(w) = c

TrashIsClosed == \A w \in Worker : pc[w] \in {"trash", "closing"} => ~L[cur[w]] /\ close[cur[w]]
LoadIsOpen == \A w \in Thread : pc[w] \in {"load", "failing"} => L[Actor(w)]

QueueIsServed ==
  \A c \in alloc : mq[c] # <<>> =>
    \/ L[c]
    \/ \E w \in Worker : cur[w] = c /\ pc[w] = "trash"
    \/ \E w \in Thread : FailedToLoad(w) /\ Actor(w) = c

States ==
  /\ KeepsOwn /\ ClosedIsEmpty /\ OwnNotDying /\ ClosedIsMarked
  /\ TrashIsClosed /\ LoadIsOpen /\ QueueIsServed

\* The system cell is open until scheduler_start closes it or its own cell_new fails.
SystemOpen ==
  /\ Booting \/ pc[main] = "join" => system \in alloc /\ ~close[system]
  /\ pc[main] \in {"run", "load", "join"} \/ new[main] # NoCell => L[system]

\* A cell whose count is zero is about to be marked, or marked, to be destroyed.
Unreferenced ==
  /\ \A w \in Thread : zero[w] # NoCell => ref[zero[w]] = 0 /\ ~quit[zero[w]]
  /\ \A v, w \in Thread : zero[v] = zero[w] /\ zero[v] # NoCell => v = w
  /\ \A c \in Cell : quit[c] => ref[c] = 0
  /\ \A c \in alloc : ref[c] = 0 => quit[c] \/ \E w \in Thread : zero[w] = c
  /\ \A w \in Thread : pc[w] = "destroy" =>
       ~L[Actor(w)] /\ (FailedToLoad(w) \/ quit[Actor(w)])

\* A cell that loads has met nobody: it knows itself and the system cell, whose
\* thread loads it, and only what it has sent these two refers to it.
Unshared ==
  \A w \in Thread : new[w] # NoCell =>
    /\ map[new[w]] \subseteq {new[w], system}
    /\ \A d \in Cell \ {new[w]} : new[w] \notin map[d] \union dying[d]
    /\ \A d \in Cell \ {new[w], system} : \A i \in DOMAIN mq[d] : new[w] \notin mq[d][i]
    /\ \A v \in Thread : zero[v] = new[w] => v = w

\* total counts every cell until globalmq_dec.
Counted ==
  total >= Cardinality(alloc) + Cardinality({w \in Worker : pc[w] = "dec"})

IInv ==
  /\ TypeOK
  /\ Phases /\ Apart /\ Free /\ States /\ SystemOpen /\ Unreferenced /\ Unshared /\ Counted
  /\ RefAccounting /\ NoDangling

\* A killed cell's Lua state gets its last messages and is closed, unless an
\* assertion of cell_destroy ends the process, here and below.
KilledIsClosed == \A c \in Cell \ {system} :
  close[c] ~> ((~L[c] /\ map[c] = {}) \/ Aborted)

\* A cell that nobody refers to is destroyed and its memory freed.
UnreferencedIsFreed == \A c \in Cell : (c \in alloc /\ ref[c] = 0) ~> (c \notin alloc \/ Aborted)

\* A message that cell_send accepted does not wait for ever: a queue that is not
\* empty gets shorter.
MessagesMove == \A c \in Cell \ {system}, n \in 1 .. MaxQueue :
  (Len(mq[c]) = n) ~> (Len(mq[c]) # n \/ Aborted)

\* hive returns: once only the system cell is left, and it has gone quiet, the
\* timer and the workers stop and scheduler_start closes the system cell.
Terminates ==
  <>[](total <= 1 /\ mq[system] = <<>>) => <>(pc[main] = "returned")
=============================================================================
