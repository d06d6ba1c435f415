SPECIFICATION FairSpec
CONSTANTS
  Caller = {k1, k2}
  Conn = {c1, c2, c3}
  Gen = {g1, g2}
  NoConn = NoConn
  NoGen = NoGen
  Inbound = Inbound
INVARIANTS TypeOK SlotOwned OneLiveLoop OneOutbound NoForgottenSocket
PROPERTIES AcceptedUnaffected ImplementsOutboundLink RetiredComesToRest LostIsUnregistered Reconnects
