\* Two coroutines read by bytes and lines while data and a close come in.
CONSTANTS
  Reader = {r1, r2}
  Nil = Nil
  Junk = Junk
  Sep <- CrLf
  Sizes = {0, 1, 3}
  MaxChunk = 3
  MaxStream = 6

SPECIFICATION Spec
SYMMETRY ReaderSymmetry

INVARIANTS
  ReadsInOrder
  NobodyWaitsInVain
  WokenIsServed
  WokenOnce
