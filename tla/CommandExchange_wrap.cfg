SPECIFICATION Spec
CONSTANTS
  A = A
  B = B
  a1 = a1
  a2 = a2
  a3 = a3
  b1 = b1
  NoCall = NoCall
  Peer = {A, B}
  Call = {a1, a2, a3}
  at <- MCat
  back <- MCback
  IDSpace = 2
  Timeouts = TRUE
  Closes = FALSE
INVARIANTS ReaderNeverBlocks
PROPERTIES NeverOverwritten
