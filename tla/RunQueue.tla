------------------------------ MODULE RunQueue ------------------------------
(***************************************************************************)
(* What the scheduler of hive promises about its runnable cells: they wait *)
(* in one first-in first-out line, a worker takes the one that waited      *)
(* longest, runs it alone, and puts it back at the end of the line, unless *)
(* the cell has quit.  While a worker runs a cell (the system cell) it may *)
(* launch others, which join the end of the line.                          *)
(*                                                                         *)
(* GlobalQueue is shown to implement this specification.                   *)
(***************************************************************************)
EXTENDS Naturals, Sequences

CONSTANTS Worker,   \* the worker threads
          Cell,     \* the addresses a cell can be allocated at
          NoCell,   \* a null struct cell pointer
          Boot      \* the cells pushed before the workers start, in order

VARIABLES waiting,  \* the cells in the line, the next to be run first
          running   \* the cell each worker runs, NoCell when it runs none

vars == <<waiting, running>>

Init == /\ waiting = Boot
        /\ running = [w \in Worker |-> NoCell]

InLine == {waiting[i] : i \in DOMAIN waiting}
Busy == {running[w] : w \in Worker}

Take(w) == /\ running[w] = NoCell
           /\ waiting # <<>>
           /\ running' = [running EXCEPT ![w] = Head(waiting)]
           /\ waiting' = Tail(waiting)

Put(w) == /\ running[w] # NoCell
          /\ waiting' = Append(waiting, running[w])
          /\ running' = [running EXCEPT ![w] = NoCell]

Launch(w, n) == /\ running[w] # NoCell
                /\ n \notin InLine \union Busy
                /\ waiting' = Append(waiting, n)
                /\ UNCHANGED running

Retire(w) == /\ running[w] # NoCell
             /\ running' = [running EXCEPT ![w] = NoCell]
             /\ UNCHANGED waiting

Next == \E w \in Worker : \/ Take(w)
                          \/ Put(w)
                          \/ Retire(w)
                          \/ \E n \in Cell : Launch(w, n)

Spec == Init /\ [][Next]_vars
=============================================================================
