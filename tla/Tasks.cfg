\* Callers, callees and sleepers are killed, launched and exit at any moment, and
\* the exit of a cell answers its callers, or is ended by an error before that.
CONSTANTS
  system = system
  a = a
  b = b
  c = c
  Nil = Nil
  Cell = {system, a, b, c}
  Programs <- All
  Duration = {1}

SPECIFICATION Spec
\* Without ticks (queue = 0) some cells have nothing left to do in the end.
CHECK_DEADLOCK FALSE

INVARIANTS
  IInv
  AnsweredOnce
  ForgottenOnlyByError
  SleepersKept
  EventsDelivered
