# Verification of hive

hive runs many Lua states, called cells, on a pool of worker threads. Cells share no
data; they send each other messages. A scheduler passes runnable cells from worker to
worker, a timer thread sends ticks to a *system cell*, which launches and kills the
others, and a *socket cell* does the network I/O for all of them.

This directory holds TLA+ modules for the parts of hive whose correctness depends on
order, interleaving and boundaries, TLC configurations that check them on small
instances, and TLAPS proofs about seven of them: the run queue, the cells and threads, the
message queue, the coroutines of the cells, the blocks of a packed message, the socket
cell and the reading of sockets.
Source paths below are relative to `src/hive-master/`.

Contents: [the system](#the-system) · [what can go wrong](#what-can-go-wrong) ·
[modules](#modules) · [runs](#runs) · [fairness](#fairness) · [proofs](#proofs) ·
[findings](#findings) · [assumptions](#assumptions) · [not modelled](#not-modelled) ·
[plan](#plan)

To repeat a check: `tlc -config Tasks.cfg MCTasks`. To repeat a proof:
`tlapm MessageQueueProofs.tla`.

## The system

| Component | Source | State | Operations |
|---|---|---|---|
| Global run queue | `src/hive_scheduler.c` 20–125 | `head`, `tail`, `queue[65536]`, `flag[65536]` | `globalmq_push`, `globalmq_pop`, `_message_dispatch` |
| Threads | `src/hive_scheduler.c` 128–361 | `total`, `ret`, the timer's clock | `_worker`, `_timer`, `scheduler_start`, `scheduler_newtask` |
| Cells | `src/hive_cell.c`, `src/hive_cell_lib.c`, `src/hive_system_lib.c` | `ref`, `L`, `close`, `quit`, the Lua state's weak `cell_map` | `cell_new`, `cell_send`, `cell_close`, `cell_dispatch_message`, `cell_grab`/`release`, `lsend`, `llaunch`, `lkill` |
| Message queue of a cell | `src/hive_cell.c` 168–222 | `cap`, `head`, `tail`, `queue` | `mq_push`, `mq_pop` |
| Serialization | `src/hive_seri.c` | a chain of blocks | `data_pack`, `data_unpack` |
| Coroutines of a cell | `cell.lua` | `session`, `task_*`, `event_q1/2` | `call`, `send`, `fork`, `sleep`, `timeout`, `wait`, `wakeup`, `exit`; ports 0–5 |
| System cell | `hive/system.lua` | `timer`, `ticker` | `launch`, `kill`, `timeout`, the tick |
| Socket pool, read buffer | `src/hive_socket_lib.c` | `s`, `id`, `count`, write buffers; byte rings | `lconnect`, `llisten`, `lpoll`, `lsend`, `lclose`; `lpush`, `lpop`, `lreadline` |
| Socket cell | `hive/socket.lua` | `sockets`: who owns a socket, or the data kept for an owner to come | `connect`, `listen`, `forward`, `disconnect`, port 6 (write), `main` (poll) |
| Socket API of a cell | `cell.lua` 176–351 | read buffers, `sockets_event`, `sockets_arg`, `sockets_closed` | `readbytes`, `readline`, `write`, `disconnect`, port 6 |
| Event backends | `src/socket_{epoll,kqueue,select,poll}.h` | the kernel's, or a table | `sp_add`, `sp_del`, `sp_write`, `sp_wait` |
| Registry, entry points | `src/hive_env.c`, `src/hive.c`, `hive.lua` | – | accessors, start |

How they interact:

* A worker pops a cell from the run queue, dispatches one of its messages by calling
  into its Lua state, and pushes the cell back, message or not. The ring is what keeps
  a Lua state on one thread at a time; a cell has no other lock for that.
* A message is packed in the sender's Lua state, appended to the receiver's queue under
  the receiver's spin lock, and unpacked in the receiver's. A cell mentioned in a
  message is counted by the message.
* `cell.lua` gives each request a session, suspends the calling coroutine under it, and
  resumes it when a response with that session arrives on port 1. Sleeping is a call to
  the system cell that is answered after enough ticks.
* A cell is killed by setting its `close`. The next worker to pop it dispatches its last
  messages and an exit message, and closes its Lua state. It stays in the ring until its
  count is zero, `quit` is set, and a worker destroys it.
* The socket cell polls in the coroutine of its `main` and passes what it reads to the
  owners of the sockets, one message on port 6 for each piece. What other cells ask of it
  is dispatched only while that coroutine is in its `sleep(0)`. A cell that accepts a
  connection forwards it to the cell that is to own it; until then the socket cell keeps
  its data. In the owner, coroutines wait for bytes or lines of a read buffer.
* The process ends when `total` is down to one: the timer and every worker return, and
  `scheduler_start` closes the system cell.

What makes each part correct:

* *run queue* — each live cell is in the ring once or in one worker's hands; first come,
  first served;
* *cells* — counts are exact, so that nothing is freed while reachable or kept when it
  is not; the assertions in `cell_destroy` fail for no cell that quits; accepted messages
  are dispatched;
* *threads* — they stop, and not while another cell lives;
* *message queue* — an unbounded FIFO; *serialization* — what is unpacked is what was
  packed, and each block is freed once;
* *coroutines, system cell* — each request gets one answer, whoever is killed meanwhile;
  each sleep ends;
* *socket pool* — an id finds its socket and no other; no descriptor is leaked; what is
  written leaves in order; *socket cell* — what is read reaches the owners in order, none
  lost across a forward, and closes are heard; *read buffer, socket API* — reads return
  the stream in order, and no reader waits for what is there.

## What can go wrong

`PROJECT.json` lists each hazard at its line. The most important are:

1. a worker preempted inside `globalmq_pop` while the others go on (72–75);
2. counting across threads: a release whose second step, `quit = true`, is late
   (`hive_cell.c` 58–64), a count carried by a message, a collector on another thread;
3. failure half way: a main chunk that fails once its cell is referred to, a value that
   cannot be packed after a cell was, an answer that cannot be sent, an exit loop that ends
   at its first error;
4. kills that race with calls, answers, sleeps, launches and exits;
5. deciding to stop on an unlocked counter;
6. boundaries: the message ring and the read buffer when they wrap or grow, values that
   straddle blocks, sizes at the limits of an encoding, the clock at its wrap;
7. one round of socket events that closes, half-closes and reuses slots, results that
   were read before their owner died, a forward or a disconnect that comes after.

## Modules

```
RunQueue  <--refines--  GlobalQueue  <- GlobalQueueProofs      MCGlobalQueue
   ^ its line is `ring` in
CellLifecycle           (mq[c] is a Fifo; close/quit)          MCCellLifecycle
   |                      <- CellLifecycleProofs
   | its open/closed/dead and last messages are `status` in
Tasks                   <- TasksProofs                         MCTasks
Fifo      <--refines--  MessageQueue <- MessageQueueProofs     MCMessageQueue
ByteStream <--refines-- BlockStream  <- Seri (EXTENDS)         MCSeri
                          <- BlockStreamProofs
SocketPool   <- SocketCell (EXTENDS)    <- SocketCellProofs
SocketBuffer <- SocketReader (EXTENDS)  <- SocketReaderProofs  MCSocketReader
DataLemmas              (remainders and sequences, for the proofs)
Clock                   (when CellLifecycle's and Tasks' Tick happens)
```

The layers are joined by abstraction: each takes the one below at its specification.
`GlobalQueue` shows that the lock-free ring is the line of `RunQueue`, and
`CellLifecycle` keeps that line as a sequence, `ring`. `MessageQueue` shows that the
doubling ring is a FIFO, and the upper two keep queues as sequences. `CellLifecycle`
shows when a message is refused and that no accepted one is stranded, which `Tasks`
takes over in `Accepts` and `BeginExit`. `SocketCell` ends where it passes data on to an
owner (`given`) and `SocketReader` begins where port 6 receives it (`Data`, `Close`).

### RunQueue, GlobalQueue

`RunQueue` is the promise: one line, `Take`, `Put`, `Launch`, `Retire`. `GlobalQueue` is
`globalmq_push`, `globalmq_pop` and `_message_dispatch` with one access to shared memory
per action. `pc[w]` names the next access: for a pop `idle` (load `head`), `tail`,
`flag`, `slot`, `cas`, `clear`; for a push `ticket`, `store`, `publish`; `run` is
`cell_dispatch_message`. `h`, `cell`, `item` and `t` are the locals of the two
functions; `live` says which cells have been started and have not quit. A push takes
effect when it draws its ticket and a pop when its compare-and-swap succeeds: that is
the refinement mapping `Line`.

`TimelySpec` adds `NoLap`: no worker sits between its compare-and-swap and
`flag[head_ptr] = false` while a whole ring (65536) of tickets passes. The code has
nothing to prevent a lap, it only makes it unlikely. With one, the flag of a slot that is
in use again is cleared and `FlagMarksUse` fails, so that no pop succeeds any more
(check `MCGlobalQueue` with `Spec` in place of `TimelySpec` to see it).

### CellLifecycle

The cells (`alloc`, `ref`, `L`, `close`, `quit`, `mq`, and `map`, the cells a Lua state
has userdata for, and `dying`, those whose userdata has left the weak `cell_map` and
awaits its finalizer) and the threads (`pc`, `cur`, `new`, `found`, `zero`), with `total`
and `timer`. Actions follow the C functions:

| Code | Actions |
|---|---|
| `cell_dispatch_message` | `Take`, `DispatchQuit`/`Close`/`Empty`/`Message`, `EndMessage`, `PushBack` |
| `trash_msg`, `lua_close`, `cell_destroy` | `TrashMessage`, `EndTrash`, `Finalize`, `EndClosing`, `Destroy`, `Decrement` |
| `cell_release` | `Release`, then `SetQuit` in a later step of the same thread |
| `lsend` with `data_pack`, `data_unpack` | `Send`, `FailToPack`, `NextMessage` |
| `llaunch`, `cell_new`, its error path | `Launch`, `EndLoad`, `FailLoad`, `EndFailing` |
| `lkill`; the weak `cell_map`, then `__gc` | `Kill`; `Collect`, then `Finalize` |
| `_timer`, `_worker`, `scheduler_start` | `Tick`, `StopTimer`, `EndRound`, `StartThreads`, `Return` |

What a cell's Lua code does is a free choice among these calls. A message is the set of
cells packed in it, for that is all that counting depends on.

A main chunk may fail at any point (`FailLoad`), whatever it has sent by then: `cell.timeout`
and `cell.call` at file scope pack the cell that is being loaded. The assertions of
`cell_destroy` are part of the model. `Aborted` says that one has failed, and then no thread
takes another step. Where they hold, a cell that failed to load may still have sent itself
messages; the references they hold are lost with its queue (`Dropped`, counted in `leaked`).
`broken_main` reaches the failed assertion, and `AssertFailsOnlyInLoad` says how far it goes:
only a cell that failed to load, only the assertion on the count, and for a launched
cell only references in messages to itself or to the system cell.

### Tasks

The Lua side of every cell. `tasks[c]` holds the suspended coroutines (`task_coroutine`,
`task_session`, `task_source` in one record), `event_q[c]` the woken events, `co[c]` the
coroutine that is running, `phase[c]` where the dispatch is, `timer` the system cell's
timer queues as pairs of an event and the ticks left. `Dispatch…` are the ports,
`Deliver` is `deliver_event`, `BeginExit`/`TellSource`/`AbortExit`/`EndExit` port 5,
`Call` … `Exit` the API, `Command…` the commands of `hive/system.lua`. `program`, chosen
in the initial state, says which calls the code of each cell may make, to whom, and
the bounds; between them the runs use all calls. `why`, `to` and `faults` are history:
what a coroutine waits for, which exit and which dispatch an error ended, and in which
cell a coroutine was resumed after the exit had answered for it.

`Finish` is what `suspend` does when a coroutine ends: no source, an answer, a source that no
longer accepts one, or an answer that raises an error of its own (`MayGarble`). The last
is a result or an error value that `data_pack` refuses, a yield that `suspend` does not
know, or a command that is no string, for which `"Unknown command " .. cmd` raises. The task
has left the tables by then, the dispatch ends before its `deliver_event`, and nobody will
answer; `unsent` is the history of it. `CallGarbled` is the other end, a call whose
arguments cannot be packed: an error in the caller, with a session spent.

### Fifo, MessageQueue

`MessageQueue` is `mq_init`, `mq_push` with its growth, and `mq_pop`. The mapping reads
the ring from `head` for `Length` slots. `PopEmpty` leaves the caller's message
untouched, as the code does.

### ByteStream, BlockStream, Seri

`BlockStream` is the block chain: one action for each piece that `wb_push` or `rb_read`
copies, with allocation and freeing. `Seri` adds the format: `Packed` is what
`_pack_one` pushes, value by value, and the `Unpack…` actions are `data_unpack`, which
decides what to read next only by what it has read. Pointers into blocks, lengths and
what is freed are exact; a byte is named by the datum that it is part of, its place in
it and the datum's size, so that reading at a wrong place or in wrong sizes never passes
for right.

`BSpec` is the chain under any calls: a writer that pushes any bytes, stores the length or
gives up, and a reader that asks for any number of bytes that are left. Its theorems are
about that. `Seri`'s steps are among them, which TLC confirms with `PROPERTY BSpec` added
to `Seri.cfg`. `Packed` is a recursive operator and `Seri` itself is TLC's alone.

### SocketPool, SocketCell

`SocketPool` has the functions of `hive_socket_lib.c` on a pool: a record of the slots
`s`, the next `id`, the `count`, and `ev`, the descriptors epoll watches. An operator has
the name of its function where it is one. `SocketCell` is `hive/socket.lua` on such a pool.
`phase` is where its `main` is; each `recv`, `accept` and `send` of `lpoll` is a step
(`Recv`, `RecvEof`, `Accept`, `NoMore`, `Send`, `SendFails`), since the kernel decides
about each, `result` holds what `main` has yet to pass on (`GiveAccepted`, `GiveData`,
`GiveDead`), and the messages of other cells (`Connect`, `Listen`, `Forward`, `Disconnect`,
`Write`) are dispatched while it sleeps. Cells die at any step. A cell may ask for anything
about a socket it was ever told of, at any later time: that stands for messages still in
its queue, finalizers of `cell.bind` objects, and cells that hand an id on. `conn` is
history: for each socket what was read, passed on, written and sent, and why it closed.

### SocketBuffer, SocketReader

`SocketBuffer` is the read buffer, byte by byte: `lpush`, `lpop` and `lreadline` with
their wrapping copies. `Contents` is what a reader should see. `SocketReader` is the socket
API on one socket: `Data` and `Close` are port 6, `Read` is `readbytes` or `readline` up
to its wait, `Resume` what follows the wait when `deliver_event` gets to it. Between
a wake-up and its delivery other coroutines run and may read, wait or disconnect.

### Clock

`_gettime` and `_updatetime` over a clock whose seconds wrap. `current` is the timer's;
`left` is what one sleeper still has to wait.

## Runs

| Run | Specification | States | Shows |
|---|---|---|---|
| `ring` | `TimelySpec` | 357 k | `MutualExclusion`, `NoCellLost`, `ImplementsRunQueue`, and `IInv`, which the proofs use |
| `lifecycle` | `Spec` | 726 k | `IInv`, which the proofs use, and with it `RefAccounting` and `NoDangling`; `AssertFailsOnlyInLoad`, `NothingStranded`, `StopsOnlyWhenDone`, whatever main chunks have done before they fail |
| `live_lifecycle` | `FairSpec` | 98 k | `RefAccounting`, `NoDangling`, `LeakIsForEver`, `KilledIsClosed`, `UnreferencedIsFreed`, `MessagesMove`, `Terminates` |
| `broken_main` | `Spec` | – | **violates** `DestroyAssert` |
| `message_queue` | `Spec` | 28 k | `Filled`, `ImplementsFifo` |
| `tasks` | `Spec` | 579 k | `AnsweredOnce`, `ForgottenOnlyByError`, `SleepersKept`, `EventsDelivered`, under kills, launches, exits and answers that cannot be sent, and `IInv`, which the proofs use |
| `launched_tasks` | `FairSpec` | 148 k | `NoUnknownResponse`, `SleepEnds`, `KilledDies`, where no cell is killed but by itself |
| `forgotten_caller` | `Spec` | – | **violates** `NoCallerForgotten` |
| `seri` | `Spec` | 17 k | `RoundTrip`, `NeverWild`, `ImplementsStream` |
| `sockets` | `Spec` | 1412 k | `IInv`, which the proofs use, and with it `IdFindsSlot`, `WatchedIsOpen`, `WritesInOrder`, `OwnerGetsAll`, `ClosedIsHeard`, `NoOrphan`, `MainDiesOfReuse` |
| `readers` | `Spec` | 325 k | `ReadsInOrder`, `NobodyWaitsInVain`, `WokenIsServed`, `WokenOnce` |
| `clock` | `Spec` | – | **violates** `SleepEnds` |

`TypeOK` is a part of `IInv` in `ring`, `lifecycle`, `tasks` and `sockets`, and proved for
`MessageQueue` and `SocketReader`. In `seri` it is a part of `RoundTrip` and contains
`BInv`, which the proofs about the chain use.
Every property of a passing run has a mutant in `PROJECT.json`: a plausible slip in a
mapped definition that the run catches.
The mutated forms stand in the modules just before the definition they mutate.

The bounds:

* `ring`: four slots, three cells, two workers, `MaxTicket = 6`. Six tickets take the ring
  once around and half way again, so that slots are reused while the other worker is at
  any line. With three cells the ring is as full as the code's assumption allows. The
  proofs have none of these bounds.
* `lifecycle`: two workers, so that one may dispatch a cell while the other collects,
  sends, kills or destroys. Three addresses: the system cell, one that boots and one
  that is launched, destroyed and launched again at the same address. `MaxQueue = 1`
  and messages of at most one cell; a count depends on how many messages mention a
  cell, and with three queues there can be several. `MaxTotal = 3` bounds failed
  launches, which inflate `total`. Workers are symmetric; no liveness is checked under
  symmetry. A finalizer follows the collection of its userdata at once. A cell that loads
  can pack itself and the system cell only, and the messages here carry none but the
  launched cell: a reference lost by `Dropped` occurs in no run. The proofs cover it, which
  have none of these bounds.
* `live_lifecycle`: two cells, of which the second is launched while `system.lua` loads and
  again, at the same address, after it has died, as long as no launch has failed
  (`MaxTotal = 2`); `MaxLeak = 1`. In the system cell a userdata may wait for its finalizer while messages
  bring its cell again (`Lagging`).
* `message_queue`: capacity 2 grows to 4 and to 8 from every position of the head;
  `MaxLength = 5`.
* Tasks: each run checks a set of programs. Both runs have one cell that launches another,
  either of which exits and the second of which may end without an answer that can be sent,
  and one that calls and posts to another that waits. `tasks` adds programs with kills: two
  cells that call, sleep, fork and kill each other; three of which one waits on behalf of
  the second, is woken on behalf of the third and kills that and itself; the program of
  `forgotten_caller`, so that `ForgottenOnlyByError` meets callers that are forgotten; and
  two cells whose results, yields and arguments cannot always be sent, one of which asks the
  system cell for what it has not. One to three sessions per cell: two let one caller have
  a call and a sleep out, and the third of the second program is what its double answer
  takes. `queue` bounds plain messages and ticks, never requests or responses. Durations of
  zero, one and two ticks cover the answer at once, at the next tick, and among other
  sleepers. The proofs have none of these bounds.
* `seri`: blocks of 8 bytes with a 4-byte length, so that every value straddles or
  touches a boundary at some offset, and strings of up to two blocks; the widths `BYTE`,
  `WORD`, `DWORD` and `MAX_COOKIE` are shrunk to 6, 12, 40 and 9 and the values lie on,
  before and after each limit.
* `sockets`: a pool of two slots that three sockets make grow to four, one cell that
  listens and one that connects and is forwarded to, so that either may die. Two
  bytes are sent in all, either way, and `READ_BUFFER = 2`: a `recv` fills the buffer, after
  which `push_result` reads again, or gives one byte, after which it does not. That is enough
  for a message that is sent in two parts or follows another, and for data before and after
  a forward. A
  third socket is needed for a slot to be reused while another is open. The proofs have
  none of these bounds.
* `readers`: six bytes in pieces of up to three, so that the ring grows from two to twelve
  bytes and wraps in every operation; a separator of two bytes, which arrives in parts
  and straddles the wrap; reads of all, one and three bytes.
* `clock`: six ticks to a wrap instead of 100 · 2^24.

`CHECK_DEADLOCK FALSE` stands where the model stops: after its last ticket (`ring`),
without ticks (one program of `tasks`), with the message unpacked (`seri`), or with the socket
cell exited (`sockets`).

## Fairness

* `CellLifecycle!FairSpec`: a thread that can go on does (`Progress`), since the OS
  schedules every thread. `SF` on `EndMessage` and `EndRound`: a handler or main chunk
  ends whatever calls it makes on the way, and a worker's `for` loop is finite. Nothing
  makes Lua code send, kill or launch, and nothing makes the clock tick. `Terminates`
  has its premise in the property: that from some time on only the system cell is left
  and its queue is empty. In the shipped configuration the socket cell never exits, so
  the premise is never met and hive runs until it is interrupted.
* `Tasks!FairSpec`: cells are dispatched again and again, coroutines yield or end, the
  commands of the system cell are carried out. `SF` on `Tick`: the code's ticks are never
  refused, the model's are while `MaxQueue` is reached.
* `Clock!Spec`: time passes (`WF`), and the timer runs its loop between two ticks, four
  times in each, hence `SF` on `_updatetime`: it is the strongest assumption that makes
  sense, and the sleep does not end even so.
* The other modules state safety only. That a woken reader goes on and that results are
  passed on is the progress of their cells, which `Tasks` and `CellLifecycle` are about.

## Proofs

Obligations: `CellLifecycleProofs` 7122, `SocketCellProofs` 6093, `TasksProofs` 4750,
`BlockStreamProofs` 2410, `SocketReaderProofs` 1816, `GlobalQueueProofs` 1728,
`DataLemmas` 421, `MessageQueueProofs` 304.
All are for every value of the constants under the named assumptions.

**GlobalQueue**, from `RingAssumption`, `CellAssumption` (finitely many cells, fewer than
slots) and `BootAssumption`, for `TimelySpec`:

* `Invariance`: `[]IInv`; from it `TypeCorrect`, `Exclusive` (`MutualExclusion`),
  `NothingLost` (`NoCellLost`) and `FlagMarks` (`FlagMarksUse`, a part of `IInv`, which fails
  without the assumption).
* `Implementation`: `TimelySpec => ImplementsRunQueue`.

Mutual exclusion is not inductive: a worker that has read a slot but not yet swapped the
head must be known to have read the cell that the head ticket stands for. `IInv` adds
what workers carry between lines (`Carried`), that unfinished pushes have queued tickets
of their own (`Tickets`), what a raised flag means (`Flags`), that what a popping worker
has checked stays true while the head has not moved (`Checked`), and that a cell stands
under one ticket or is in one worker's hands (`OnePlace`). `OnePlace` bounds the line by
the number of cells (lemma `Room`, by cardinality), hence `tail - head < MAX_GLOBAL_MQ`,
hence queued tickets have slots of their own (`QueuedApart`). `NoLap` gives the same for
slots about to be cleared (`ClearingApart`). There is one lemma per action.

The refinement maps a ring to the sequence `waiting` of the cells that the tickets from
`head` to `tail - 1` stand for, and to the function `running` of who holds what. `IInv`
gives that a queued ticket stands for exactly one cell (`OneEach`), so a step that leaves
`Stands` and `Holds` alone is a stutter: all but three actions (`PopIsSilent`,
`DispatchIsSilent`, `StoreIsSilent`, `PublishIsSilent`). A compare-and-swap that succeeds
is a `Take` of the line's head (`CasTakes`, by `Checked`), drawing a ticket is a `Put`,
or a `Launch` of a cell that `OnePlace` says is nowhere yet (`TicketJoins`), and `Retire`
is `Retire`.

**CellLifecycle**, from `ThreadAssumption` (finitely many workers), `CellAssumption`
(finitely many addresses) and `BoundAssumption`, for `Spec`, and for every one of
the bounds, which are only guards:

* `Invariance`: `[]IInv`; from it `TypeCorrect` (`TypeOK`: no count falls below zero),
  `CountsAreExact` (`RefAccounting`), `NothingDangles` (`NoDangling`), `AssertFailsOnlyLoading`
  (`AssertFailsOnlyInLoad`), `NoMessageStranded` (`NothingStranded`), `LeaksLast` (`LeakIsForEver`) and
  `StopWhenDone` (`StopsOnlyWhenDone`).

They hold for main chunks that fail at any point, of `main.lua` as of any other: the
assertion that may fail then ends the process, and the theorems say what is true until it
does, and that it fails nowhere else. `StopWhenDone` also assumes `Worker # {}`: with no worker, which `config.thread = 0` asks
for, every worker is done from the start.

None of the properties is inductive, and they lean on each other. A count is exact
only if no thread counts for a cell that another is freeing, and a cell is freed with
nothing referring to it only if its count is exact. `IInv` says where everything is:

* `Phases`: which locals a thread has at which line; `main` is alone until `join`;
* `Apart`: a cell stands once in `ring` or in one thread's hands. What its dispatch changes
  is then left alone by others, but for sends, kills and the count;
* `Free`: what is at an address without a cell, which a launch finds there;
* `States`: what a Lua state holds. An open one has the userdata of its own cell and of the
  system cell (`KeepsOwn`; `OwnNotDying`), so a running cell counts itself and cannot go to
  zero below its own feet; a closed one has none (`ClosedIsEmpty`), is marked
  (`ClosedIsMarked`, `TrashIsClosed`) and has an empty queue once `trash_msg` is through
  (`QueueIsServed`);
* `SystemOpen`: the system cell can be sent to until the threads have been joined;
* `Unreferenced`: who takes a count to zero is one thread, which has not set `quit` yet;
  what has `quit` stays at zero. This is `cell_release` in two steps (58–64), and why
  nobody sees the window between them: nothing is left to grab the cell by;
* `Unshared`: a cell that loads, or has failed to, has no userdata in any state but its own,
  and is packed only in messages to itself or to the system cell. So nobody can grab or
  release it meanwhile; once its state is closed its count is what those messages hold;
* `Counted`: `total` counts a cell until after it has been destroyed.

`RefAccounting` relates a count to the sizes of sets of references; `Accounts` turns it
into a sum of naturals, `HoldersPut`, `PlacesPushed`, `PlacesPopped` and `RunsChange` say by
how much one call changes each of them, and `AccountStep` balances the sum for each
action. `Referenced` reads it backwards: whatever has a reference somewhere has a count
above zero. `Destroyed` says what is known of a cell that is freed once the assertions have
held: `ref = 0` means that nothing is left to refer to it, whichever way it came there.
There is one `...Step` lemma per conjunct, with a case per action.

**MessageQueue**, from `QueueAssumption`, for `Spec`:

* `Invariance`, `TypeCorrect`, `AllFilled` (`Filled`) and `Implementation`:
  `Spec => ImplementsFifo`, the refinement itself.

The invariant is `TypeOK /\ Filled`; the hard case is a push that fills the ring, where
`DataLemmas!Remainder` computes `(head + i) % cap` and the mapping's sequence must come out equal
although every index changes. `MaxLength` is only a guard, so the theorem holds for
every bound.

**Tasks**, from `CodeAssumption` (finitely many cells, `Nil` is none of them nor a session,
and programs of user cells that address user cells), for `Spec`:

* `Invariance`: `[]IInv`; from it `TypeCorrect` (`TypeOK`), `OneAnswer` (`AnsweredOnce`),
  `NoneForgotten` (`ForgottenOnlyByError`), `SleepersAreKept` (`SleepersKept`),
  `EventsAreDelivered` (`EventsDelivered`), and `ResponsesKnown`: `NoUnknownResponse` while
  `NeverLate`, that is, until a coroutine runs on after its cell's exit has answered for it.

`AnsweredOnce` counts the places where an answer to a session may be, and no step keeps a
count by itself. The invariant names what is counted: whoever is to answer session `s` of
`c` holds the *claim* `<<c, s>>`. A message carries at most one (`MessageClaims`), a
coroutine or a task that of its source (`SourceClaims`). `IInv` says:

* `Stages`: which phase goes with which status; a cell past its last message has an empty
  queue for ever, since nobody can send to it, and a task resumed by the last
  `deliver_event` has made its cell late;
* `EventsDistinct`: sessions name one task each, and only tasks that wait to be woken are;
* `Addressed`: a claim is to a session given out, and no task that waits for a wake-up or
  the end has it: without this a response could resume a sleeper;
* `Alone`, while `NeverLate`: a claim is in one place, once, and its session is awaited.
  What an exiting cell still owes are its unanswered tasks (`Owing`), so that `TellSource`
  moves a claim to the source's queue and a late coroutine, which would answer a second
  time, is the only way to copy one;
* `Answerable`: the cell that was called has the claim, or its answer is in the caller's
  queue, or its exit was aborted, or the answer could not be sent. It needs no `NeverLate`.

`Held` lays the claims out as a function of kind and cell; `OnePlaceMoved` is the step that
all actions share: claims that come are new or leave their place. `AloneStep`,
`AddressedStep` and `AnswerableStep` lift it to the conjuncts; `QuietStep` (no claim moves),
`TaskStep` (a new session, its task and perhaps a request) and `StartedStep` (a
request becomes a coroutine) serve several actions each. From claims to counts
(`CountedOnce`, `CarriersCounted`, `CountsFinite`) is cardinality of sets with at most one
element. `MaxSession` and `MaxQueue` are only guards.

**SocketReader**, from `ReaderAssumption`, for `Spec`:

* `Invariance`, `TypeCorrect` (`TypeOK`), `InOrder` (`ReadsInOrder`), `NobodyForgotten`
  (`NobodyWaitsInVain`), `Served` (`WokenIsServed`) and `OneWakeup` (`WokenOnce`).

The first half of the module relates the ring to `Contents`, the bytes in order, whatever its size
and wherever it wraps: `Pushed` says that `lpush` appends, with or without a new buffer
(`NewBuffer`, `Copied`, `Appended`, from `MemcpyOf`, what a copy leaves in memory);
`LinesOf` that `lreadline` looks for the separator in `Contents`; `PoppedOf` and `LineOff`
that what `lpop` and `lreadline` return is what they take off, so that returned and kept
together are what was there. The invariant is `BytesInv /\ WaitInv`. `BytesInv` is
`ReadsInOrder` with the types of the bytes. A read that takes bytes leaves less to find
(`LessIsReadable`), so no other reader comes to wait in vain. `WaitInv` adds `EventInv`,
without which `WokenIsServed` is not inductive: the event of an open socket is that of one
waiting reader, whose read is `arg` and which is not woken yet. `gone => closed` is
there because a disconnect leaves the event behind: what port 6 may then wake a second
time must not matter to an open socket. `MaxChunk` and `MaxStream` are only guards, so
the theorems hold for every message and stream.

**SocketCell**, from `PoolAssumption`, `SocketAssumption` and `ValueAssumption` (an owner, nil
and a table of data are different things), for `Spec`:

* `Invariance`: `[]IInv`; from it `TypeCorrect` (`TypeOK`), `IdsFindSlots` (`IdFindsSlot`),
  `WatchedAreOpen` (`WatchedIsOpen`), `WritesGoInOrder` (`WritesInOrder`), `OwnersGetAll`
  (`OwnerGetsAll`), `ClosedAreHeard` (`ClosedIsHeard`), `NoneOrphaned` (`NoOrphan`) and
  `MainDiesOnlyOfReuse` (`MainDiesOfReuse`).

`MaxSockets` and `MaxBytes` are only guards, and `DEFAULT_SOCKET` is any positive number: the
theorems hold for every pool that doubles as often as it likes, every split of every send,
and every cell that dies at whatever step. The seven invariants become inductive with four
more:

* `Rounds`: where `main` is. Outside a round nothing is ready; results are left only while
  `main` passes them on, or when it died of one; the socket being handled is no longer in
  `ready`, so no event closes a socket that a later one is about; an event that still says
  *writable* finds something to write.
* `Owners`: an owner that is a cell knows the socket; a connection that is to be forwarded
  has an entry, which is nil only if somebody asked to close it; half-closed sockets were
  asked to.
* `Fresh`: a connection that is accepted and not announced yet is known to nobody, has no
  history, is open and not half-closed, is not polled in the round that accepted it and is
  announced once. It is what `NoOrphan` leans on.
* `ReusedLater`: a socket with a result that is not passed on yet has its slot, or the slot
  is that of a connection whose announcement comes later in the same round. When the owner
  is dead, `csocket.close` fails in the second case only: this is `MainDiesOfReuse`.

The pool comes first, as operators on a record, with `PoolOK` for a pool in use:
`ExpandedOf` (doubling clashes nowhere, since ids are apart modulo twice the size if they are
modulo the size), `new_socket` (`NewPool`: a free slot exists below the limit and the id
was never used), `ForceCloseOf`, `BufferedOf`, `DrainedOf`, each stated as a change of one
socket that leaves the others alone (`OthersKept`, `Opens`). Then the bytes: `Halves`, `Sends`
and `Writes` say that what send took, what is buffered and what was written fit together,
whatever the split. `FlattenSeq` is a recursive function of the library; `DataLemmas` gets its
laws (`FlattenAppend`, `FlattenHead`, `FlattenType`) by the least counterexample, which
needs no induction theorem. While the cell lives `IInv` is `Live`; each action has its
`...Keeps` lemma, most of them instances of one general step each (`ReadKeeps`,
`SlotKeeps`, `ServedKeeps`, `RoundKeeps`, `OpensKeeps`).

**BlockStream**, from `SizeAssumption` (a block has room for the length), for `BSpec`:

* `Invariance`: `[]BInv`; from it `TypeCorrect` (`BTypeOK`) and `OnlyLiveBlocks`
  (`NeverWild`).
* `Implementation`: `BSpec => ImplementsStream`, for every size of a block and of the length.

`NeverWild` is not inductive: that a reader who is at the end of a block finds a next one
follows from how much is left to read, not from the links. `BInv` adds the arithmetic.
`WriterAt` says that the writer is in the last block, which is begun unless it is the
first, and that the length it stores is that of the chain; `ReaderAt` that what has been
read and what is left add up to that length. So whoever has something left to read stands
before the end of the last block (`Whereabouts`, `NextBlock`).

The refinement reads the chain as one sequence, `Contents`, the concatenation of its
buffers. `FlatIs` says which byte of which block each of its places is (`FlatUpTo` by the
least counterexample, `PlaceOf` by the least block that ends behind the place). What is copied
out of a block is then a piece of `Contents` (`BytesIs`), and a step that moves the reader by
as much as it copies is a `Take` (`Takes`, `CopiesTake`). What is written is only added
to: a copied piece is a `Write` (`CopyInWrites`), and pushing, linking a new block and
storing the length in front leave what is to be read alone (`Grows`, `SamePiece`).

**Model-checked only:** all liveness properties (`KilledIsClosed`, `UnreferencedIsFreed`,
`MessagesMove`, `Terminates`, `SleepEnds`, `KilledDies`), which are out of the prover's
reach, and `Seri`'s `RoundTrip`, since its encoder is a recursive operator.

## Findings

1. *A broken main.lua fails an assertion* (`broken_main`). `start()` launches the socket
   cell, which takes a reference to the system cell; when `main.lua` then fails to load,
   the system cell's own `cell_new` destroys it with that reference outstanding, and
   `assert(c->ref == 0)` (`hive_cell.c` 241) fails instead of the process ending with
   `launch main.lua failed`. Any launched cell can do the same: a main chunk that packs its
   own cell into a message, with `cell.timeout` or `cell.call` at file scope, and then fails
   (after `cell.call` it must, since it cannot yield there) leaves its count above zero on
   the same path (346–385), and the assertion ends the whole process.
2. *A killed cell may leave callers waiting* (`forgotten_caller`). Port 5 answers the
   suspended tasks in a loop (`cell.lua` 357–362); `c.send` raises an error for a dead
   source, and for the nil source of a task begun by a plain message (port 3 passes the
   global `source`), and the tasks after it are never answered. `test/main.lua` kills a
   cell and goes on calling it, expecting an error each time. A caller is also forgotten by
   a cell that lives: when what is to be answered cannot be packed (a function, a table nested
   too deep) or is no answer at all (an unknown op or command), `suspend` and port 2 raise an
   error themselves (`cell.lua` 129–146, 393) and the claim is lost. `ForgottenOnlyByError`
   shows that these are all: an exit that an error ended, or this caller's own answer.

3. *Ticks end when the clock wraps* (`clock`). `_gettime` takes the seconds modulo 2^24,
   which wrap every 194 days, and `_updatetime` sends ticks only while the time is greater
   than the last it saw (160). The timer looks four times a tick, so it has seen the
   greatest value there is; no time is ever greater and all sleeps last for ever. The
   repository's `README.md` (52) says that a cell sleeps 0.01 second and goes on.

What the properties of the passing runs say *except for* is as telling:

* `AnsweredOnce`: a killed cell answers for a coroutine that was woken and not resumed yet;
  its last `deliver_event` then runs that coroutine, which answers again.
* `EventsDelivered`: an answer to a dead source, or one that cannot be packed, raises an error
  in the port's dispatch, which skips `deliver_event`; the events wait for the cell's next
  message. `SocketReader` lets port 6 receive only when the events of the last message have
  been delivered: what a reader sees after such an error is outside it.
* `NothingStranded`, `LeakIsForEver`: messages that a cell has sent itself before it failed to
  load are lost, with the references they hold.
* `ClosedIsHeard`: when `send` fails in `sendout`, the socket is closed (555) and no result
  says so: its owner is never told. (A broken pipe is such a failure and not the end of the
  process: `linit` calls `sp_create`, which ignores SIGPIPE, `socket_epoll.h` 26.)
* `NoOrphan`: when the cell that listens has died, the connection accepted last stays open
  without an entry in `sockets` until its peer closes it.
* `MainDiesOfReuse`: when a connection closes whose owner has died, and another is accepted
  into its slot in the same round, `csocket.close` raises an error outside any `pcall`
  and `main` ends: from then on no socket of any cell is polled.
* `ReadsInOrder`: `readbytes` and `readline` look at the close first; what arrived before
  it and was not read yet is thrown away.
* `WokenIsServed`: a woken reader whose data another coroutine has read returns nil on an
  open socket.
* `WokenOnce`: `disconnect` leaves the event it has woken in place, and data or a close that
  is on its way wakes it again, where nobody waits for it.

## Assumptions

* Memory is sequentially consistent between threads. The ring's shared accesses are
  `__sync` builtins or followed by barriers; `quit` and `total` are written or read
  without a lock, and the model lets every interleaving of single reads and writes
  happen, not torn or reordered ones.
* `head` and `tail` are naturals: 2^32 pops between one worker's load and its
  compare-and-swap are left out.
* No worker is lapped (`NoLap`): 2^16 tickets between a worker's compare-and-swap and its
  next line would let it clear somebody else's flag. It is a hazard of the code that every
  property of the ring assumes away; none of them would catch it.
* There are never as many runnable cells as slots (65536).
* No cell's code kills the system cell. Nothing prevents it, and the timer's and
  `scheduler_start`'s pointers to the system cell are not counted: what `NoDangling` says
  of them rests on this.
* `malloc` succeeds, and epoll takes every descriptor.
* Fewer than 2^31 sockets are ever opened.
* Two lines of `hive_socket_lib.c` do not compile as they stand (460 is a comment without
  its slashes, 603 lacks a semicolon); they are read as they are meant.

## Not modelled

* The event backends of other systems. `socket_select.h` is compiled on Windows only and
  brings socket types of its own; it asserts a count (208) that a socket which is both
  readable and writable may break. `socket_kqueue.h` (BSD, macOS) depends on what that
  kernel does with filters, which nothing in the repository says; its hazard is listed.
* A refused descriptor: `new_socket` returns −1, which `lconnect` hands out as an id.
* `sockets_accept`, the table of accepters, after its listener disconnects.
* Stack use for long strings (a string is unpacked through an array on the C stack,
  `hive_seri.c` 554), and memory that is only leaked (`lsend`, 718).
* Durations that are not whole ticks: the key of a timeout is `ticker + n`
  (`hive/system.lua` 54), and no tick equals a fractional one.
* `hive_env.c`, `hive.c`, `hive.lua`, `test.lua`, the examples and the Makefile, which hold
  no protocol of their own.

## Plan

Done: the run queue with proofs and refinement; cells and threads with proofs; the message
queue with proofs and refinement; coroutines and the system cell with proofs; the block
chain of a message with proofs and refinement, and the format on top of it; the socket
pool, socket cell, read buffer and socket API with proofs; the clock. Every safety
property of a passing run is a theorem but for `RoundTrip`.
