\* No worker is lapped: the ring is a line and every cell is run by one worker.
CONSTANTS
  Worker = {w1, w2}
  Cell = {main, system, client}
  NoCell = NoCell
  main = main
  system = system
  client = client
  Boot <- MCBoot
  MAX_GLOBAL_MQ = 4
  MaxTicket = 6

SPECIFICATION TimelySpec
SYMMETRY WorkerSymmetry
\* The model stops when MaxTicket tickets are drawn.
CHECK_DEADLOCK FALSE

INVARIANTS
  IInv
  MutualExclusion
  NoCellLost
PROPERTY
  ImplementsRunQueue
