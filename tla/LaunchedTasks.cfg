\* A cell is launched, both may exit while the other waits, coroutines wait and are
\* woken while calls and messages come in; sleeps end, and those that exit die.
CONSTANTS
  system = system
  a = a
  b = b
  c = c
  Nil = Nil
  Cell = {system, a, b}
  Programs <- Living
  Duration = {0, 2}

SPECIFICATION FairSpec

INVARIANT
  NoUnknownResponse
PROPERTIES
  SleepEnds
  KilledDies
