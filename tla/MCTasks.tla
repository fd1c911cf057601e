------------------------------ MODULE MCTasks ------------------------------
(* The system cell and two or three cells, with what the code of each does  *)
(* in each program.                                                         *)
EXTENDS Tasks, TLC

CONSTANTS a, b, c

None == [x \in Users |-> {}]
Program(boot, does, calls, kills, sessions, queue) ==
  [boot |-> boot, does |-> does @@ None, calls |-> calls @@ None, kills |-> kills @@ None,
   sessions |-> sessions @@ [x \in Users |-> 0], queue |-> queue]

\* Two cells that call, sleep, fork and kill each other.
CallsAndKills ==
  LET two == {a, b}
  IN Program(two, [x \in two |-> {"call", "sleep", "fork", "kill"}],
             [x \in two |-> two], [x \in two |-> two], a :> 2 @@ b :> 1, 1)

\* A cell that launches another, which does what a cell may do, perhaps without an
\* answer that can be sent, and exits.
Launches ==
  Program({a}, a :> {"launch", "sleep", "exit"}
               @@ b :> {"wait", "timeout", "sleep", "exit", "garble"},
          None, None, a :> 2 @@ b :> 2, 1)

\* A cell that calls another and sends it messages, for which it waits.
Wakes ==
  Program({a, b}, a :> {"call", "post"} @@ b :> {"wait", "timeout"}, a :> {b}, None,
          a :> 2 @@ b :> 2, 1)

\* A message handler and a command handler of b wait when b is killed.
KilledWaiting ==
  Program({a, b}, a :> {"call", "post", "fork", "kill"} @@ b :> {"wait"}, a :> {b}, a :> {b},
          a :> 3 @@ b :> 2, 1)

\* a waits on behalf of b and is woken on behalf of c, and kills c and itself.
WokenAndKilled ==
  Program({a, b, c}, a :> {"wait", "kill"} @@ b :> {"call"} @@ c :> {"call"},
          b :> {a} @@ c :> {a}, a :> {a, c}, a :> 3 @@ b :> 1 @@ c :> 1, 0)

\* Cells whose results, errors, yields and arguments cannot always be sent.
Garbles ==
  Program({a, b}, a :> {"call", "fork", "garble"} @@ b :> {"call", "garble", "kill"},
          a :> {b, system} @@ b :> {a}, b :> {a}, a :> 2 @@ b :> 2, 1)

Living == {Launches, Wakes}
Forgetting == {KilledWaiting}
All == {CallsAndKills, WokenAndKilled, Garbles} \union Living \union Forgetting
=============================================================================
