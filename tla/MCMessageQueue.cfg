CONSTANTS
  Message = {a, b}
  NoMessage = NoMessage
  DEFAULT_QUEUE = 2
  MaxLength = 5

SPECIFICATION Spec

INVARIANT
  Filled
PROPERTY
  ImplementsFifo
