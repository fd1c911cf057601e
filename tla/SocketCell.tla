----------------------------- MODULE SocketCell -----------------------------
(***************************************************************************)
(* The socket cell (hive/socket.lua) on its socket pool, between the       *)
(* network and the cells that own the sockets.                             *)
(*                                                                         *)
(* Its main coroutine polls: epoll reports what is ready, lpoll reads,     *)
(* accepts and sends, and the results are passed on one by one.  Only in   *)
(* its sleep(0) are the messages of other cells dispatched.  Each system   *)
(* call is a step, and so is the death of a cell, which interleaves with   *)
(* all of them.  A message that is queued is as good as one that is still  *)
(* to be sent, so that a cell may at any time have sent any message about  *)
(* any socket it was ever told of.                                         *)
(* The network is external: any call may find bytes, a connection, their   *)
(* end or nothing.  The bytes of a connection are 1, 2, ... each way, and  *)
(* Eof is what the recv of a closed connection returns.                    *)
(***************************************************************************)
EXTENDS SocketPool, SequencesExt

CONSTANTS Server,       \* the cells that listen
          Client,       \* the cells that connect, or that sockets are forwarded to
          Nobody,       \* Lua's nil as an entry of sockets
          READ_BUFFER,  \* the bytes of one recv: 4000 in the code
          Eof,          \* the size 0 with which a closed connection is reported
          MaxSockets,   \* bound of the model: the sockets ever opened
          MaxBytes      \* bound of the model: the bytes ever sent, either way

ASSUME SocketAssumption ==
  /\ READ_BUFFER \in Nat \ {0}
  /\ MaxSockets \in Nat /\ MaxBytes \in Nat

Cell == Server \union Client

\* What a recv gives, and the tables of data: values that are no cells, and no nil.
Byte == Nat \union {Eof}
Table == Seq(Seq(Byte))

ASSUME ValueAssumption ==
  /\ Nobody \notin Cell \union Nat \union Table
  /\ \A c \in Cell : c \notin Table
  /\ Eof \notin Nat

VARIABLES pool,      \* struct socket_pool
          conn,      \* what became of every socket ever opened
          sockets,   \* the table of socket.lua: an owner, or a table of data
          alive,     \* the cells that accept messages
          phase,     \* what main does: "sleep", "poll", "dead" or "exited"
          ready,     \* the sockets whose events lpoll may still have to handle
          event,     \* p->ev[i]: the event that it is handling
          result     \* the events that main has yet to pass on

vars == <<pool, conn, sockets, alive, phase, ready, event, result>>

\* Histories: got, what recv returned; given, what was passed on; out, what send
\* took; written, the bytes lsend has accepted; told: whether a cell knows the id,
\* and is to "forward" it; left: "asked" to close, "failed" to send, or "orphan"
\* of a listener.
NewConn(told) ==
  [got |-> <<>>, given |-> <<>>, out |-> <<>>, written |-> 0,
   told |-> told, left |-> "no"]

Opened == DOMAIN conn
Watched == DOMAIN pool.ev
Listening(id) == Slot(pool, id).listen
Known(id) == conn[id].told # "no"
Owner(id) == IF id \in DOMAIN sockets THEN sockets[id] ELSE Nobody
Kept(id) == Owner(id) # Nobody /\ Owner(id) \notin Cell    \* a table of data

\* The results of lpoll: data of a connection, or an accepted connection.
Data(id, bytes) == [fd |-> id, bytes |-> bytes, new |-> Nobody]
Accepted(id, new) == [fd |-> id, bytes |-> <<>>, new |-> new]

NoEvent == [id |-> 0, read |-> FALSE, write |-> FALSE]
Room == Cardinality(Opened) < MaxSockets
Bytes == MapThenSumSet(LAMBDA id : conn[id].written
                                   + Cardinality(ToSet(conn[id].got) \ {Eof}), Opened)

Init ==
  /\ pool = linit
  /\ conn = <<>> /\ sockets = <<>>
  /\ alive = Cell
  /\ phase = "sleep"
  /\ ready = {} /\ event = NoEvent
  /\ result = <<>>

-----------------------------------------------------------------------------
(* lpoll                                                                   *)

\* sp_wait: each event is about a socket that is watched now.
Poll ==
  /\ phase = "sleep"
  /\ ready' = Watched
  /\ phase' = "poll"
  /\ UNCHANGED <<pool, conn, sockets, alive, event, result>>

\* The next event, in any order; those that are not there are left in ready.
NextEvent ==
  /\ phase = "poll" /\ event = NoEvent
  /\ \E id \in ready :
       /\ ready' = ready \ {id}
       /\ \E read \in BOOLEAN, write \in {FALSE, pool.ev[id]} :
            /\ read \/ write
            /\ event' = [id |-> id, read |-> read, write |-> write]
  /\ UNCHANGED <<pool, conn, sockets, alive, phase, result>>

Reading(id) == event.id = id /\ event.read
Writing(id) == event.id = id /\ ~event.read /\ event.write
HasRead == event' = IF event.write THEN [event EXCEPT !.read = FALSE] ELSE NoEvent

\* push_result, one recv of r bytes: a full buffer is followed by another recv.
Recv(id, r) ==
  /\ Reading(id) /\ ~Listening(id) /\ Bytes + r <= MaxBytes
  /\ LET bytes == [i \in 1 .. r |-> Len(conn[id].got) + i]
     IN /\ conn' = [conn EXCEPT ![id].got = @ \o bytes]
        /\ result' = IF Slot(pool, id).status = "halfclose" THEN result
                     ELSE Append(result, Data(id, bytes))
  /\ IF r < READ_BUFFER THEN HasRead ELSE UNCHANGED event
  /\ UNCHANGED <<pool, sockets, alive, phase, ready>>

\* The peer has closed, or recv fails.
RecvEof(id) ==
  /\ Reading(id) /\ ~Listening(id)
  /\ pool' = force_close(pool, id)
  /\ conn' = [conn EXCEPT ![id].got = Append(@, Eof)]
  /\ result' = Append(result, Data(id, <<Eof>>))
  /\ HasRead
  /\ UNCHANGED <<sockets, alive, phase, ready>>

\* accept_result, one accept.
Accept(id) ==
  /\ Reading(id) /\ Listening(id) /\ Room
  /\ pool' = new_socket(pool, FALSE)
  /\ conn' = With(conn, NextId(pool), NewConn("no"))
  /\ result' = Append(result, Accepted(id, NextId(pool)))
  /\ UNCHANGED <<sockets, alive, phase, ready, event>>

\* recv or accept would block.
NoMore(id) ==
  /\ Reading(id)
  /\ HasRead
  /\ UNCHANGED <<pool, conn, sockets, alive, phase, ready, result>>

\* sendout, one send that takes k bytes, the last of which ends the event unless
\* there is another buffer.  With k = 0 it would block.
Send(id) ==
  /\ Writing(id) /\ id \in Watched
  /\ LET wb == Slot(pool, id).wb IN
     \E k \in 0 .. Len(Head(wb)) :
       /\ pool' = IF k = 0 THEN pool ELSE CloseDrained(Drained(pool, id, k), id)
       /\ conn' = [conn EXCEPT ![id].out = @ \o SubSeq(Head(wb), 1, k)]
       /\ event' = IF k = Len(Head(wb)) /\ Len(wb) > 1 THEN event ELSE NoEvent
  /\ UNCHANGED <<sockets, alive, phase, ready, result>>

\* A send that fails closes the socket, and no event says so.
SendFails(id) ==
  /\ Writing(id) /\ id \in Watched
  /\ pool' = force_close(pool, id)
  /\ conn' = [conn EXCEPT ![id].left = IF @ = "no" THEN "failed" ELSE @]
  /\ event' = NoEvent
  /\ UNCHANGED <<sockets, alive, phase, ready, result>>

\* push_result has closed the socket just before.
SendNothing(id) ==
  /\ Writing(id) /\ id \notin Watched
  /\ event' = NoEvent
  /\ UNCHANGED <<pool, conn, sockets, alive, phase, ready, result>>

-----------------------------------------------------------------------------
(* socket.lua: main                                                        *)

\* message.disconnect, and what it does when csocket.close raises an error.
Forget(id) == sockets' = [sockets EXCEPT ![id] = Nobody]
Asked(id) == [conn EXCEPT ![id].left = "asked"]

\* lpoll has handled its last event.
Polled == phase = "poll" /\ event = NoEvent
Results == Polled /\ result # <<>>
Next1 == result' = Tail(result) /\ ready' = {}

\* Mutant: the accepted connection gets no table.
GiveAcceptedBare ==
  /\ Results /\ Head(result).new # Nobody
  /\ conn' = [conn EXCEPT ![Head(result).new].told = "forward"]
  /\ Next1
  /\ UNCHANGED <<pool, sockets, alive, phase, event>>

\* An accepted connection gets a table of its own once its listener's owner has
\* been told of it; a dead owner's listener is closed and the connection forgotten.
GiveAccepted ==
  /\ Results /\ Head(result).new # Nobody
  /\ LET l == Head(result).fd
         new == Head(result).new
     IN \/ /\ Owner(l) \in alive
           /\ conn' = [conn EXCEPT ![new].told = "forward"]
           /\ sockets' = With(sockets, new, <<>>)
           /\ UNCHANGED pool
        \/ /\ Owner(l) \in Cell \ alive
           /\ Forget(l)
           /\ pool' = lclose(pool, l)
           /\ conn' = [conn EXCEPT ![l].left = "asked", ![new].left = "orphan"]
        \/ /\ Owner(l) = Nobody
           /\ conn' = [conn EXCEPT ![new].left = "orphan"]
           /\ UNCHANGED <<pool, sockets>>
  /\ Next1
  /\ UNCHANGED <<alive, phase, event>>

\* Data goes to the owner, or into the table of a connection without one.
GiveData ==
  /\ Results /\ Head(result).new = Nobody
  /\ LET id == Head(result).fd
         bytes == Head(result).bytes
     IN \/ /\ Owner(id) \in alive
           /\ conn' = [conn EXCEPT ![id].given = @ \o bytes]
           /\ UNCHANGED sockets
        \/ /\ Kept(id)
           /\ sockets' = [sockets EXCEPT ![id] = Append(@, bytes)]
           /\ UNCHANGED conn
        \/ /\ Owner(id) = Nobody
           /\ UNCHANGED <<conn, sockets>>
  /\ Next1
  /\ UNCHANGED <<pool, alive, phase, event>>

\* The owner is dead: its socket is closed.  When it is closed already and its
\* slot another socket's, csocket.close raises an error, which ends main.
GiveDead ==
  /\ Results /\ Head(result).new = Nobody
  /\ LET id == Head(result).fd
     IN /\ Owner(id) \in Cell \ alive
        /\ Forget(id)
        /\ conn' = Asked(id)
        /\ pool' = lclose(pool, id)
        /\ IF CloseFails(pool, id)
             THEN phase' = "dead" /\ ready' = {} /\ UNCHANGED result
             ELSE Next1 /\ UNCHANGED phase
  /\ UNCHANGED <<alive, event>>

Sleep ==
  /\ Polled /\ result = <<>>
  /\ phase' = "sleep"
  /\ ready' = {}
  /\ UNCHANGED <<pool, conn, sockets, alive, event, result>>

-----------------------------------------------------------------------------
(* socket.lua: the messages of the cells, while main sleeps or is dead     *)

Dispatching == phase \in {"sleep", "dead"}    \* not "poll"
Served == UNCHANGED <<alive, phase, ready, event, result>>

\* command.connect and command.listen.
NewFor(c, listen) ==
  /\ Dispatching /\ Room
  /\ LET id == NextId(pool)
     IN /\ pool' = new_socket(pool, listen)
        /\ conn' = With(conn, id, NewConn("yes"))
        /\ sockets' = With(sockets, id, c)
  /\ Served

Connect(c) == NewFor(c, FALSE)
Listen(c)  == NewFor(c, TRUE)

\* llisten, when bind or listen fails.
BindFails ==
  /\ Dispatching /\ Room
  /\ LET id == NextId(pool)
     IN /\ pool' = force_close(new_socket(pool, TRUE), id)
        /\ conn' = With(conn, id, [NewConn("no") EXCEPT !.left = "asked"])
  /\ UNCHANGED sockets
  /\ Served

\* command.forward, which the accepter's cell sends once: the new owner is sent the
\* table's data, until it turns out to be dead.  Without a table, because of an
\* earlier disconnect, it becomes the owner all the same.
\* Mutant: the data is forgotten.
Forwardable(id) == Dispatching /\ conn[id].told = "forward"

ForwardBare(id, c) ==
  /\ Forwardable(id)
  /\ sockets' = [sockets EXCEPT ![id] = c]
  /\ conn' = [conn EXCEPT ![id].told = "yes"]
  /\ UNCHANGED pool
  /\ Served

Forward(id, c) ==
  /\ Forwardable(id)
  /\ LET data == IF Kept(id) THEN sockets[id] ELSE <<>>
         To(k) == [conn EXCEPT ![id].told = "yes",
                               ![id].given = @ \o FlattenSeq(SubSeq(data, 1, k))]
     IN \/ /\ c \in alive \/ data = <<>>
           /\ sockets' = [sockets EXCEPT ![id] = c]
           /\ conn' = To(Len(data))
           /\ UNCHANGED pool
        \/ /\ c \notin alive
           /\ \E k \in 0 .. Len(data) - 1 : conn' = [To(k) EXCEPT ![id].left = "asked"]
           /\ Forget(id)
           /\ pool' = lclose(pool, id)
  /\ Served

\* message.disconnect.  An error of csocket.close is printed.
Disconnect(id) ==
  /\ Dispatching /\ Known(id) /\ Owner(id) # Nobody
  /\ Forget(id)
  /\ conn' = Asked(id)
  /\ pool' = lclose(pool, id)
  /\ Served

\* Port 6: csocket.send, which tries to send at once when nothing is buffered.
\* Mutant: it always tries.
WriteEagerly(id, n) ==
  /\ Dispatching /\ Known(id) /\ Writable(pool, id) /\ ~Listening(id)
  /\ Bytes + n <= MaxBytes
  /\ LET bytes == [i \in 1 .. n |-> conn[id].written + i] IN
     \E k \in 0 .. n :
       /\ pool' = Buffered(pool, id, SubSeq(bytes, k + 1, n))
       /\ conn' = [conn EXCEPT ![id].written = @ + n,
                               ![id].out = @ \o SubSeq(bytes, 1, k)]
  /\ UNCHANGED sockets
  /\ Served

Write(id, n) ==
  /\ Dispatching /\ Known(id) /\ Writable(pool, id) /\ ~Listening(id)
  /\ Bytes + n <= MaxBytes
  /\ LET bytes == [i \in 1 .. n |-> conn[id].written + i] IN
     \E k \in 0 .. n :
       /\ Slot(pool, id).wb # <<>> => k = 0
       /\ pool' = Buffered(pool, id, SubSeq(bytes, k + 1, n))
       /\ conn' = [conn EXCEPT ![id].written = @ + n,
                               ![id].out = @ \o SubSeq(bytes, 1, k)]
  /\ UNCHANGED sockets
  /\ Served

-----------------------------------------------------------------------------

Main == \/ Poll \/ GiveAccepted \/ GiveData \/ GiveDead \/ Sleep
        \/ NextEvent
        \/ \E id \in Opened : \/ \E r \in 1 .. READ_BUFFER : Recv(id, r)
                              \/ RecvEof(id) \/ NoMore(id) \/ Accept(id)
                              \/ Send(id) \/ SendFails(id) \/ SendNothing(id)

Messages == \/ BindFails
            \/ \E c \in Client : Connect(c)
            \/ \E c \in Server : Listen(c)
            \/ \E id \in Opened : \/ Disconnect(id)
                                  \/ \E c \in Client : Forward(id, c)
                                  \/ \E n \in 1 .. MaxBytes : Write(id, n)

\* The socket cell is killed and its Lua state closed.
Exit ==
  /\ Dispatching
  /\ phase' = "exited"
  /\ pool' = lexit(pool)
  /\ conn' = <<>> /\ sockets' = <<>> /\ result' = <<>>
  /\ UNCHANGED <<alive, ready, event>>

Die(c) ==
  /\ c \in alive
  /\ alive' = alive \ {c}
  /\ UNCHANGED <<pool, conn, sockets, phase, ready, event, result>>

Next == Main \/ Messages \/ Exit \/ \E c \in Cell : Die(c)

Spec == Init /\ [][Next]_vars

-----------------------------------------------------------------------------
(* Properties                                                              *)

SlotType == [id : Nat, status : {"invalid", "suspend", "halfclose"},
             listen : BOOLEAN, wb : Seq(Seq(Nat) \ {<<>>})]

ConnType == [got : Seq(Byte), given : Seq(Byte), out : Seq(Nat), written : Nat,
             told : {"no", "yes", "forward"}, left : {"no", "asked", "failed", "orphan"}]

ResultType ==
  [fd : Opened, bytes : Seq(Byte), new : {Nobody}] \union [fd : Opened, bytes : {<<>>}, new : Opened]

TypeOK ==
  /\ pool = [s |-> pool.s, id |-> pool.id, count |-> pool.count, ev |-> pool.ev]
  /\ Cap(pool) \in Nat /\ pool.s \in [0 .. Cap(pool) - 1 -> SlotType]
  /\ pool.id \in Nat \ {0} /\ pool.count \in Nat
  /\ pool.ev \in [Watched -> BOOLEAN] /\ Watched \subseteq Opened
  /\ Opened \subseteq 1 .. pool.id - 1 /\ conn \in [Opened -> ConnType]
  /\ DOMAIN sockets \subseteq Opened
  /\ sockets \in [DOMAIN sockets -> Cell \union {Nobody} \union Table]
  /\ alive \subseteq Cell
  /\ phase \in {"sleep", "poll", "dead", "exited"}
  /\ ready \subseteq Opened
  /\ event \in [id : Opened \union {0}, read : BOOLEAN, write : BOOLEAN]
  /\ result \in Seq(ResultType)

\* The table may be searched by id modulo its size, and grows without a clash: the
\* assertions of expand_pool and new_socket.
IdFindsSlot ==
  /\ TypeOK
  /\ pool.count = Cardinality(InUse(pool))
  /\ \A n \in InUse(pool) : pool.s[n].id % Cap(pool) = n /\ pool.s[n].id < pool.id
  /\ \A n \in DOMAIN pool.s \ InUse(pool) : pool.s[n].wb = <<>>

\* No descriptor is leaked or left to epoll, room to write is watched while there
\* is something to write, a half-closed socket still has something to send, and
\* an event is about a socket that was open until the event closed it.
WatchedIsOpen ==
  /\ Watched = {pool.s[n].id : n \in InUse(pool)}
  /\ \A id \in Watched : pool.ev[id] <=> Slot(pool, id).wb # <<>>
  /\ \A n \in InUse(pool) : pool.s[n].status = "halfclose" => pool.s[n].wb # <<>>
  /\ ready \union (IF event.read THEN {event.id} ELSE {}) \subseteq Watched

Upto(n) == [i \in 1 .. n |-> i]

\* The bytes written to a socket leave in order and none is lost while it is open,
\* whatever the kernel takes at a time.
WritesInOrder ==
  \A id \in Opened :
    /\ conn[id].out = Upto(Len(conn[id].out))
    /\ id \in Watched =>
         conn[id].out \o FlattenSeq(Slot(pool, id).wb) = Upto(conn[id].written)

\* What is read from a socket that nobody has asked to close reaches its owners in
\* order, the end of the connection last, whenever it is forwarded.
InResult(id) ==
  FlattenSeq([i \in DOMAIN result |-> IF result[i].fd = id THEN result[i].bytes ELSE <<>>])
InTable(id) == IF Kept(id) THEN FlattenSeq(sockets[id]) ELSE <<>>

OwnerGetsAll ==
  \A id \in Opened : Owner(id) # Nobody /\ conn[id].left # "asked" =>
    conn[id].given \o InTable(id) \o InResult(id) = conn[id].got

\* A socket that the pool has closed unasked has read its end, which its owner is
\* then told, unless it was sendout that failed: then the owner never learns.
ClosedIsHeard ==
  \A id \in Opened \ Watched :
    conn[id].left = "no" => conn[id].got # <<>> /\ Last(conn[id].got) = Eof

\* An open connection has an entry in socket.lua or is being closed or announced:
\* it is forgotten, and open as long as its peer likes, only when the cell that
\* listens has died.
NoOrphan ==
  \A id \in Watched :
    \/ Owner(id) # Nobody
    \/ Slot(pool, id).status = "halfclose"
    \/ \E i \in DOMAIN result : result[i].new = id
    \/ conn[id].left = "orphan" /\ alive # Cell

\* "None-blocking socket api that can be used in every cell" (README.md): it ends
\* for all of them only when, in one round, a connection closes whose owner has
\* died and another is accepted into its slot.
MainDiesOfReuse ==
  phase = "dead" =>
    LET e == Head(result) IN
    /\ Owner(e.fd) = Nobody /\ alive # Cell
    /\ e.fd \notin Watched
    /\ \E i \in DOMAIN result : result[i].new \in Opened /\ result[i].new > e.fd

-----------------------------------------------------------------------------
(* The inductive invariant                                                 *)

\* Where main is in its round.
Rounds ==
  /\ phase = "exited" <=> Cap(pool) = 0
  /\ phase # "poll" => ready = {} /\ event = NoEvent
  /\ phase \in {"sleep", "exited"} => result = <<>>
  /\ phase = "dead" => result # <<>> /\ Known(Head(result).fd) /\ conn[Head(result).fd].told = "yes"
  /\ event = NoEvent \/ (event.id \in Opened \ ready /\ (event.read \/ event.write))
  /\ event.write /\ event.id \in Watched => Slot(pool, event.id).wb # <<>>

\* A socket is a cell's, or the cell's that listens has yet to forward it; who asked
\* to close it is why it is half-closed.
Owners ==
  \A id \in Opened :
    /\ Owner(id) \in Cell => conn[id].told = "yes"
    /\ conn[id].told = "forward" =>
         id \in DOMAIN sockets /\ (Owner(id) = Nobody => conn[id].left = "asked")
    /\ id \in Watched =>
         /\ Slot(pool, id).status = "halfclose" => conn[id].left = "asked"
         /\ Listening(id) => Slot(pool, id).wb = <<>>

\* A connection that is accepted and not announced yet is known to nobody, and not
\* polled before it is.
Announced(i) == result[i].new # Nobody

Unheard(i, id) ==
  /\ conn[id] = NewConn("no") /\ id \notin DOMAIN sockets
  /\ id \in Watched /\ ~Listening(id)
  /\ id \notin ready \union {event.id}
  /\ Owner(result[i].fd) # Nobody \/ alive # Cell
  /\ \A j \in DOMAIN result : result[j].fd # id /\ (result[j].new = id => j = i)

Fresh == \A i \in DOMAIN result : Announced(i) => Unheard(i, result[i].new)

\* The slot of a socket whose data main has yet to pass on is reused only by a
\* connection whose turn comes later.
ReusedLater ==
  phase = "poll" =>
    \A i \in DOMAIN result :
      \/ Announced(i)
      \/ Slot(pool, result[i].fd).id = result[i].fd
      \/ \E j \in DOMAIN result : j > i /\ result[j].new \in Opened /\ result[j].new > result[i].fd

IInv ==
  /\ IdFindsSlot /\ WatchedIsOpen /\ WritesInOrder /\ OwnerGetsAll
  /\ ClosedIsHeard /\ NoOrphan /\ MainDiesOfReuse
  /\ Rounds /\ Owners /\ Fresh /\ ReusedLater
=============================================================================
