CONSTANTS
  BLOCK_SIZE = 8
  HEADER = 4
  MAX_COOKIE = 9
  MAX_DEPTH = 2
  BYTE = 6
  WORD = 12
  DWORD = 40
  POINTER = 8
  Values <- Messages

SPECIFICATION Spec
\* A message is packed and unpacked once.
CHECK_DEADLOCK FALSE

INVARIANTS
  NeverWild
  RoundTrip
PROPERTY
  ImplementsStream
