-------------------------------- MODULE Clock --------------------------------
(***************************************************************************)
(* The clock of the timer thread (hive_scheduler.c): _gettime takes the    *)
(* seconds modulo a power of two, 2^24 in the code, and _updatetime sends  *)
(* the system cell as many ticks as the clock has advanced since it was    *)
(* last seen to advance.  A cell sleeps for a number of ticks.             *)
(*                                                                         *)
(* gettimeofday is external.  All that the code sees of it is its value    *)
(* modulo the wrap, which is what the model keeps: time goes on for ever.  *)
(***************************************************************************)
EXTENDS Naturals

CONSTANTS Seconds,   \* the wrap of tv_sec: 0xffffff + 1 in the code
          Hundred,   \* the ticks of a second: 100 in the code
          Duration   \* the ticks that a cell sleeps

VARIABLES sec,       \* tv_sec, modulo Seconds
          tick,      \* tv_usec / 10000
          current,   \* the timer's current
          left       \* the ticks that the sleeper has still to wait

vars == <<sec, tick, current, left>>

_gettime == sec * Hundred + tick

Init ==
  /\ sec \in 0 .. Seconds - 1 /\ tick \in 0 .. Hundred - 1
  /\ current = _gettime
  /\ left = 0

\* A hundredth of a second passes.
Pass ==
  /\ tick' = (tick + 1) % Hundred
  /\ sec' = IF tick' = 0 THEN (sec + 1) % Seconds ELSE sec
  /\ UNCHANGED <<current, left>>

Sleep ==
  /\ left = 0
  /\ left' = Duration
  /\ UNCHANGED <<sec, tick, current>>

\* A round of _timer: _updatetime, with a tick for each step of the difference.
_updatetime ==
  /\ _gettime > current
  /\ current' = _gettime
  /\ LET diff == _gettime - current
     IN left' = IF left > diff THEN left - diff ELSE 0
  /\ UNCHANGED <<sec, tick>>

Next == Pass \/ Sleep \/ _updatetime

\* Time passes, and the timer looks at the clock between two ticks: it sleeps for
\* a quarter of one.
Spec == Init /\ [][Next]_vars /\ WF_vars(Pass) /\ SF_vars(_updatetime)

\* The README says of the cell that sleeps one tick: "It will sleep 0.01 second
\* first, and the send 'pong' back."  Every sleep ends.
SleepEnds == left > 0 ~> left = 0
=============================================================================
