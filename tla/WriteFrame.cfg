SPECIFICATION FairSpec
CONSTANTS
  Writer = {w1, w2, w3}
  NoWriter = NoWriter
  Chunks = 2
INVARIANTS TypeOK FramesAreWhole OwnTimeoutOnly ResultIsTruthful
PROPERTIES BlockedCallsReturn
