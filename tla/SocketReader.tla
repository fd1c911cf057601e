---------------------------- MODULE SocketReader ----------------------------
(***************************************************************************)
(* The socket API of a cell (cell.lua) for one socket: coroutines read it  *)
(* by bytes or by lines, port 6 brings what the socket cell passes on      *)
(* (SocketCell), and any coroutine may disconnect.                         *)
(*                                                                         *)
(* A coroutine runs until it yields, and the woken ones run before the     *)
(* next message is dispatched; but one that was woken or forked earlier    *)
(* runs earlier, and may read, disconnect or wait.  The event of a read is *)
(* named by the coroutine that waits for it.  A byte of the stream is its  *)
(* position, or a byte of Sep, so that none passes for another.            *)
(***************************************************************************)
EXTENDS SocketBuffer, SequencesExt, FiniteSets

CONSTANTS Reader,      \* the coroutines that read
          Nil,         \* Lua's nil where an event is expected
          Sep,         \* the separator of lines, a sequence of bytes
          Sizes,       \* the sizes that readbytes is given
          MaxChunk,    \* bound of the model: the bytes of one message
          MaxStream    \* bound of the model: the bytes of the stream

\* What a coroutine may read: n bytes, or a line.
Reads == {[line |-> FALSE, size |-> n] : n \in Sizes} \union {[line |-> TRUE, size |-> 0]}

ASSUME ReaderAssumption ==
  /\ Nil \notin Reader \union Reads
  /\ Sep \in Seq(Range(Sep)) /\ Sep # <<>>
  /\ Sizes \subseteq Nat
  /\ MaxChunk \in Nat /\ MaxStream \in Nat

VARIABLES buffer,    \* sockets[fd]
          event,     \* sockets_event[fd]
          arg,       \* sockets_arg[fd]: the read that is to be woken
          closed,    \* sockets_closed[fd]
          event_q,   \* the events woken and not yet delivered
          wants,     \* what each suspended reader is to read
          stream,    \* history: the bytes that have come
          taken,     \* history: the bytes that reads returned, separators too
          eof,       \* history: the socket cell has said that the socket closed
          gone,      \* history: disconnect was called
          robbed     \* history: the readers after whose wakeup another one read

vars == <<buffer, event, arg, closed, event_q, wants, stream, taken, eof, gone, robbed>>

Init ==
  /\ buffer = NoBuffer
  /\ event = Nil /\ arg = Nil
  /\ closed = FALSE
  /\ event_q = <<>>
  /\ wants = [r \in Reader |-> Nil]
  /\ stream = <<>> /\ taken = <<>>
  /\ eof = FALSE /\ gone = FALSE
  /\ robbed = {}

Waiting(r) == wants[r] # Nil

-----------------------------------------------------------------------------
(* Port 6                                                                  *)

\* Mutant: any data wakes.
EnoughAlways(b, a) == TRUE

Enough(b, a) == IF a.line THEN HasLine(b, Sep) ELSE Bytes(b) >= a.size

\* The event of a reader is woken, and is no longer the socket's.
\* Mutant: it stays the socket's.
WakeAndKeep == event_q' = Append(event_q, event) /\ UNCHANGED event

Wake == event_q' = Append(event_q, event) /\ event' = Nil

Data(msg) ==
  /\ event_q = <<>> /\ ~eof
  /\ buffer' = lpush(buffer, msg)
  /\ stream' = stream \o msg
  /\ IF event # Nil /\ Enough(buffer', arg) THEN Wake ELSE UNCHANGED <<event, event_q>>
  /\ UNCHANGED <<arg, closed, wants, taken, eof, gone, robbed>>

Close ==
  /\ event_q = <<>> /\ ~eof
  /\ closed' = TRUE
  /\ eof' = TRUE
  /\ IF event # Nil THEN Wake ELSE UNCHANGED <<event, event_q>>
  /\ UNCHANGED <<buffer, arg, wants, stream, taken, gone, robbed>>

-----------------------------------------------------------------------------
(* What the coroutines call                                                *)

\* csocket.pop or csocket.readline finds what is asked for, and takes it.
Has(a) == IF a.line THEN HasLine(buffer, Sep) ELSE CanPop(buffer, a.size)

Take(r, a) ==
  /\ IF a.line
       THEN /\ taken' = taken \o Line(buffer, Sep) \o Sep
            /\ buffer' = AfterLine(buffer, Sep)
       ELSE /\ taken' = taken \o FirstBytes(buffer, PopSize(buffer, a.size))
            /\ buffer' = Popped(buffer, a.size)
  /\ robbed' = (robbed \ {r}) \union (ToSet(event_q) \ {r})

\* readbytes and readline of a closed socket: nil, and what was unread is lost.
GiveUp == buffer' = NoBuffer /\ UNCHANGED <<taken, robbed>>

\* readbytes and readline, up to their wait.  (While another coroutine waits, an
\* assertion fails.)
Read(r, a) ==
  /\ ~Waiting(r)
  /\ CASE closed -> GiveUp /\ UNCHANGED <<event, arg, wants>>
       [] ~closed /\ Has(a) -> Take(r, a) /\ UNCHANGED <<event, arg, wants>>
       [] OTHER -> /\ event = Nil
                   /\ event' = r /\ arg' = a
                   /\ wants' = [wants EXCEPT ![r] = a]
                   /\ UNCHANGED <<buffer, taken, robbed>>
  /\ UNCHANGED <<closed, event_q, stream, eof, gone>>

\* deliver_event: the reader goes on after its wait; or nobody waits for the event.
Resume ==
  /\ event_q # <<>>
  /\ event_q' = Tail(event_q)
  /\ LET r == Head(event_q)
         a == wants[r]
     IN /\ wants' = [wants EXCEPT ![r] = Nil]
        /\ CASE ~Waiting(r) -> UNCHANGED <<buffer, taken, robbed>>
             [] Waiting(r) /\ closed -> GiveUp
             [] Waiting(r) /\ ~closed /\ Has(a) -> Take(r, a)
             [] OTHER -> robbed' = robbed \ {r} /\ UNCHANGED <<buffer, taken>>
  /\ UNCHANGED <<event, arg, closed, stream, eof, gone>>

\* disconnect, whose message to the socket cell (SocketCell's Disconnect) leaves
\* what is on its way here.  Mutant: the reader is left alone.
DisconnectQuietly ==
  /\ Len(event_q) < Cardinality(Reader)
  /\ buffer' = NoBuffer
  /\ closed' = TRUE
  /\ gone' = TRUE
  /\ UNCHANGED <<event, event_q, arg, wants, stream, taken, eof, robbed>>

Disconnect ==
  /\ Len(event_q) < Cardinality(Reader)
  /\ buffer' = NoBuffer
  /\ closed' = TRUE
  /\ gone' = TRUE
  /\ event_q' = IF event = Nil THEN event_q ELSE Append(event_q, event)
  /\ UNCHANGED <<event, arg, wants, stream, taken, eof, robbed>>

-----------------------------------------------------------------------------

\* The next n bytes of the stream.
Chunks(n) == {m \in [1 .. n -> Range(Sep) \union (Len(stream) + 1 .. Len(stream) + n)] :
                \A i \in 1 .. n : m[i] \in Range(Sep) \union {Len(stream) + i}}

Port6 == \/ \E n \in 1 .. MaxChunk : Len(stream) + n <= MaxStream /\ \E m \in Chunks(n) : Data(m)
         \/ Close

Next == \/ Port6 \/ Resume \/ Disconnect
        \/ \E r \in Reader, a \in Reads : Read(r, a)

Spec == Init /\ [][Next]_vars

-----------------------------------------------------------------------------
(* Properties                                                              *)

TypeOK ==
  /\ BufferOK(buffer)
  /\ event \in Reader \union {Nil}
  /\ event # Nil => arg \in Reads
  /\ closed \in BOOLEAN
  /\ ToSet(event_q) \subseteq Reader
  /\ wants \in [Reader -> Reads \union {Nil}]

\* What the reads of an open socket return is the stream, in order and complete,
\* and the rest is in the buffer, wherever it wraps and however reads by bytes
\* and by lines follow each other.  Only a close loses data, which came before it
\* and was not read yet.
ReadsInOrder ==
  /\ IsPrefix(taken, stream)
  /\ ~closed => taken \o Contents(buffer) = stream

\* A reader waits only while the open socket has too little for it: otherwise its
\* event is on its way, whoever disconnects and whatever comes first.
NobodyWaitsInVain ==
  \A r \in Reader : Waiting(r) =>
    r \in ToSet(event_q) \/ (event = r /\ ~closed /\ ~Has(wants[r]))

\* A read of an open socket returns nil only to a reader whose data another one
\* has read after it was woken.
WokenIsServed ==
  \A r \in Reader : Waiting(r) /\ r \in ToSet(event_q) /\ ~closed /\ r \notin robbed =>
    Has(wants[r])

\* An event is woken once (cell.lua raises "Unknown response" at the second time),
\* unless disconnect has woken it and left it behind.
WokenOnce ==
  ~gone => \A i \in DOMAIN event_q :
             /\ Waiting(event_q[i])
             /\ \A j \in DOMAIN event_q : event_q[i] = event_q[j] => i = j
=============================================================================
