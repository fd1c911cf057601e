\* Connections come, are forwarded, written to, closed by either side, and owners die.
CONSTANTS
  Server = {server}
  Client = {client}
  Nobody = Nobody
  Eof = Eof
  DEFAULT_SOCKET = 2
  READ_BUFFER = 2
  MaxSockets = 3
  MaxBytes = 2

SPECIFICATION Spec
\* Every cell may die, and then there is nothing left to do.
CHECK_DEADLOCK FALSE

INVARIANTS
  IInv
  IdFindsSlot
  WatchedIsOpen
  WritesInOrder
  OwnerGetsAll
  ClosedIsHeard
  NoOrphan
  MainDiesOfReuse
