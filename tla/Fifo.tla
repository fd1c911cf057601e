-------------------------------- MODULE Fifo --------------------------------
(***************************************************************************)
(* What a cell's message queue promises: messages come out once each, in   *)
(* the order in which they went in, there is always room for one more, and *)
(* only an empty queue says that it is empty.                              *)
(*                                                                         *)
(* MessageQueue is shown to implement this specification.                  *)
(***************************************************************************)
EXTENDS Sequences

CONSTANTS Message,    \* the messages
          NoMessage   \* the answer of an empty queue

VARIABLES items,      \* the messages in the queue, the oldest first
          popped      \* the answer to the last Get

vars == <<items, popped>>

Init == items = <<>> /\ popped = NoMessage

Put(m) == items' = Append(items, m) /\ UNCHANGED popped

Get == /\ items # <<>>
       /\ popped' = Head(items)
       /\ items' = Tail(items)

GetNothing == /\ items = <<>>
              /\ popped' = NoMessage
              /\ UNCHANGED items

Next == (\E m \in Message : Put(m)) \/ Get \/ GetNothing

Spec == Init /\ [][Next]_vars
=============================================================================
