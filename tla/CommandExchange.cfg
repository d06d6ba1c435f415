SPECIFICATION FairSpec
CONSTANTS
  A = A
  B = B
  a1 = a1
  a2 = a2
  a3 = a3
  b1 = b1
  Peer = {A, B}
  Call = {a1, b1, a2}
  NoCall = NoCall
  at <- MCat
  back <- MCback
  IDSpace = 3
  Timeouts = TRUE
  Closes = TRUE
INVARIANTS TypeOK NoLeakedEntry StillAnswerable
PROPERTIES ImplementsRemoteCall EveryCallReturns
