SPECIFICATION FairSpec
CONSTANTS
  p = p
  q = q
  Port = {p, q}
  NoPort = NoPort
  Services <- Configured
  MaxRequest = 4
  MaxConn = 2
  MaxServed = 3
  MaxForwarded = 1
INVARIANTS TypeOK EndedIsClosed
PROPERTIES NothingLeaks PicksMoveOn
