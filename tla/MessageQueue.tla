---------------------------- MODULE MessageQueue ----------------------------
(***************************************************************************)
(* The message queue of a cell: struct message_queue, mq_init, mq_push and *)
(* mq_pop (hive_cell.c), a ring that doubles when a push has filled it.    *)
(* Its head and tail are equal when the ring is empty, so it must never be *)
(* left full.                                                              *)
(*                                                                         *)
(* Push and pop are single steps: cell_send and cell_dispatch_message call *)
(* them under the cell's spin lock, and trash_msg, which does not hold it, *)
(* when CellLifecycle shows that nobody else touches the queue.            *)
(***************************************************************************)
EXTENDS Naturals, Sequences

CONSTANTS Message,        \* the messages
          NoMessage,      \* a slot never written, or a pop's m left untouched
          DEFAULT_QUEUE,  \* the first capacity, 64 in the code
          MaxLength       \* bound of the model on the messages in the queue

ASSUME QueueAssumption ==
  /\ NoMessage \notin Message
  /\ DEFAULT_QUEUE \in Nat \ {0, 1}
  /\ MaxLength \in Nat

VARIABLES cap, head, tail,  \* the capacity, the next slot to pop, to push
          queue,            \* the messages, by slot
          popped            \* what the last mq_pop found

vars == <<cap, head, tail, queue, popped>>

\* mq_init: the slots that malloc returns hold nothing yet.
Init ==
  /\ cap = DEFAULT_QUEUE
  /\ head = 0 /\ tail = 0
  /\ queue = [s \in 0 .. DEFAULT_QUEUE - 1 |-> NoMessage]
  /\ popped = NoMessage

\* The slot after s.
NextSlot(s) == IF s + 1 >= cap THEN 0 ELSE s + 1

\* The number of messages.
Length == IF tail >= head THEN tail - head ELSE tail + cap - head

\* The queue's storage once it is copied to the front of one twice its size.
\* Mutant: the copy starts at slot 0, whatever the head.
UnfoldedFromZero(q) == [s \in 0 .. 2 * cap - 1 |-> IF s < cap THEN q[s] ELSE NoMessage]

Unfolded(q) ==
  [s \in 0 .. 2 * cap - 1 |-> IF s < cap THEN q[(head + s) % cap] ELSE NoMessage]

\* mq_push: the tail caught up with the head, and the ring grows, or did not.
\* Mutant: a ring that is full is not grown.
PushNoGrowth(m) ==
  /\ Length < MaxLength
  /\ queue' = [queue EXCEPT ![tail] = m]
  /\ tail' = NextSlot(tail)
  /\ UNCHANGED <<cap, head, popped>>

Push(m) ==
  /\ Length < MaxLength
  /\ LET q == [queue EXCEPT ![tail] = m]
         t == NextSlot(tail)
     IN IF head = t
          THEN /\ queue' = Unfolded(q)
               /\ head' = 0 /\ tail' = cap
               /\ cap' = 2 * cap
          ELSE /\ queue' = q
               /\ tail' = t
               /\ UNCHANGED <<head, cap>>
  /\ UNCHANGED popped

\* Mutant: pop does not look whether there is a message.
PopUnchecked ==
  /\ popped' = queue[head]
  /\ head' = NextSlot(head)
  /\ UNCHANGED <<cap, tail, queue>>

Pop ==
  /\ head # tail
  /\ popped' = queue[head]
  /\ head' = NextSlot(head)
  /\ UNCHANGED <<cap, tail, queue>>

\* mq_pop returns 1 and leaves its caller's message uninitialized.
PopEmpty ==
  /\ head = tail
  /\ popped' = NoMessage
  /\ UNCHANGED <<cap, head, tail, queue>>

Next == (\E m \in Message : Push(m)) \/ Pop \/ PopEmpty

Spec == Init /\ [][Next]_vars

-----------------------------------------------------------------------------
(* Properties                                                              *)

TypeOK ==
  /\ cap \in Nat \ {0, 1}
  /\ head \in 0 .. cap - 1 /\ tail \in 0 .. cap - 1
  /\ queue \in [0 .. cap - 1 -> Message \union {NoMessage}]
  /\ popped \in Message \union {NoMessage}

\* The slot of the i-th oldest message.
SlotOf(i) == IF head + i - 1 < cap THEN head + i - 1 ELSE head + i - 1 - cap

items == [i \in 1 .. Length |-> queue[SlotOf(i)]]

\* Between head and tail, around the ring, every slot holds a message, and a
\* reader never meets memory that malloc left uninitialized.
Filled == \A i \in 1 .. Length : queue[SlotOf(i)] \in Message

\* The inductive invariant behind the refinement.
IInv == TypeOK /\ Filled

\* The doubling ring is a first-in first-out queue that is never full: cell_send
\* cannot fail for lack of room, and messages neither vanish nor swap places
\* when the ring wraps or grows.
Queue == INSTANCE Fifo

ImplementsFifo == Queue!Spec
=============================================================================
