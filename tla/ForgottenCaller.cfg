\* The exit of b stops at a message handler that nobody waits for.
CONSTANTS
  system = system
  a = a
  b = b
  c = c
  Nil = Nil
  Cell = {system, a, b}
  Programs <- Forgetting
  Duration = {1}

SPECIFICATION Spec

INVARIANT
  NoCallerForgotten
