----------------------------- MODULE SocketPool -----------------------------
(***************************************************************************)
(* The socket pool of hive_socket_lib.c as operators on a record: a table  *)
(* of slots addressed by id modulo its size, the next id, the number of    *)
(* sockets in use, and the file descriptors that epoll watches.            *)
(*                                                                         *)
(* A descriptor is named by the id of its socket, and ev[id] says whether  *)
(* epoll also watches it for room to write.  wb is the list of write       *)
(* buffers from head to tail, each the bytes that are still to be sent.    *)
(* Left out: that epoll may refuse a descriptor, and the end of the ints.  *)
(***************************************************************************)
EXTENDS Naturals, Sequences, FiniteSets, FiniteSetsExt, Functions

CONSTANT DEFAULT_SOCKET    \* the slots of a new pool: 128 in the code

ASSUME PoolAssumption == DEFAULT_SOCKET \in Nat \ {0}

EmptySlot == [id |-> 0, status |-> "invalid", listen |-> FALSE, wb |-> <<>>]

linit == [s     |-> [n \in 0 .. DEFAULT_SOCKET - 1 |-> EmptySlot],
          id    |-> 1,
          count |-> 0,
          ev    |-> <<>>]

Cap(p) == Cardinality(DOMAIN p.s)
Slot(p, id) == p.s[id % Cap(p)]
InUse(p) == {n \in DOMAIN p.s : p.s[n].status # "invalid"}

\* A table with an entry of its own for id.
With(f, id, v) == [w \in DOMAIN f \union {id} |-> IF w = id THEN v ELSE f[w]]

\* The backend: socket_epoll.h.
sp_add(p, id) == [p EXCEPT !.ev = With(@, id, FALSE)]
sp_del(p, id) == [p EXCEPT !.ev = Restrict(@, DOMAIN @ \ {id})]
sp_write(p, id, enable) == [p EXCEPT !.ev[id] = enable]

\* Mutant: the slots are copied to where they were.
expand_kept(p) ==
  [p EXCEPT !.s = [n \in 0 .. 2 * Cap(p) - 1 |->
                     IF n < Cap(p) THEN p.s[n] ELSE EmptySlot]]

expand_pool(p) ==
  LET from(n) == {m \in DOMAIN p.s : p.s[m].id % (2 * Cap(p)) = n}
  IN [p EXCEPT !.s = [n \in 0 .. 2 * Cap(p) - 1 |->
                        IF from(n) = {} THEN EmptySlot
                        ELSE p.s[CHOOSE m \in from(n) : TRUE]]]

Expanded(p) == IF p.count >= Cap(p) THEN expand_pool(p) ELSE p

\* The id that new_socket gives out, and the pool with its socket.  llisten
\* then sets the flag listen.
NextId(p) ==
  LET q == Expanded(p)
  IN q.id + Min({i \in 0 .. Cap(q) - 1 :
                   q.s[(q.id + i) % Cap(q)].status = "invalid"})

new_socket(p, listen) ==
  LET q  == Expanded(p)
      id == NextId(p)
  IN [sp_add(q, id) EXCEPT
        !.s[id % Cap(q)] = [id |-> id, status |-> "suspend",
                            listen |-> listen, wb |-> <<>>],
        !.id = id + 1,
        !.count = @ + 1]

\* Mutant: the write buffers stay in the slot.
close_unfreed(p, id) ==
  [sp_del(p, id) EXCEPT
     !.s[id % Cap(p)].status = "invalid",
     !.count = @ - 1]

force_close(p, id) ==
  [sp_del(p, id) EXCEPT
     !.s[id % Cap(p)].status = "invalid",
     !.s[id % Cap(p)].wb = <<>>,
     !.count = @ - 1]

\* "Close invalid socket": the slot is another socket's by now.
\* Mutant: also when it is nobody's.
CloseFailsTwice(p, id) == Slot(p, id).id # id \/ Slot(p, id).status = "invalid"

CloseFails(p, id) == Slot(p, id).id # id

\* Mutant: a closed socket is closed again.
CloseTwice(p, id) ==
  IF CloseFails(p, id) THEN p
  ELSE IF Slot(p, id).wb = <<>> THEN force_close(p, id)
  ELSE [p EXCEPT !.s[id % Cap(p)].status = "halfclose"]

lclose(p, id) ==
  IF CloseFails(p, id) \/ Slot(p, id).status = "invalid" THEN p
  ELSE IF Slot(p, id).wb = <<>> THEN force_close(p, id)
  ELSE [p EXCEPT !.s[id % Cap(p)].status = "halfclose"]

\* lsend takes the message for a socket that is open, and frees it otherwise.
Writable(p, id) == Slot(p, id).id = id /\ Slot(p, id).status = "suspend"

\* What lsend puts into the write buffers: the message, after what is there, or
\* what of it the kernel did not take.
Buffered(p, id, bytes) ==
  LET q == [p EXCEPT !.s[id % Cap(p)].wb = Append(@, bytes)]
  IN IF bytes = <<>> THEN p
     ELSE IF Slot(p, id).wb # <<>> THEN q
     ELSE sp_write(q, id, TRUE)

\* sendout, after send has taken k bytes of the first write buffer.
Drained(p, id, k) ==
  LET wb == Slot(p, id).wb
      rest == IF k = Len(Head(wb)) THEN Tail(wb)
              ELSE <<SubSeq(Head(wb), k + 1, Len(Head(wb)))>> \o Tail(wb)
      q == [p EXCEPT !.s[id % Cap(p)].wb = rest]
  IN IF rest = <<>> THEN sp_write(q, id, FALSE) ELSE q

\* What lpoll does after sendout.  Mutants: whatever the status; never.
CloseAnyDrained(p, id) ==
  IF Slot(p, id).wb = <<>> THEN force_close(p, id) ELSE p

CloseNoDrained(p, id) == p

CloseDrained(p, id) ==
  IF Slot(p, id).status = "halfclose" /\ Slot(p, id).wb = <<>>
    THEN force_close(p, id)
    ELSE p

\* lexit, when the Lua state of the socket cell is closed.
lexit(p) ==
  [linit EXCEPT !.s = <<>>,
                !.ev = Restrict(p.ev, DOMAIN p.ev \ {p.s[n].id : n \in InUse(p)})]
=============================================================================
