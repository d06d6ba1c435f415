SPECIFICATION FairSpec
CONSTANTS
  r1 = r1
  r2 = r2
  r3 = r3
  MaxFrameSize = 64
  Buffer <- MCBuffer
  NewCap = 20
  MaxPooled = 21
  Goroutine <- MCGoroutine
  Registrar = {r1, r2, r3}
  NoOne = NoOne
  ID <- MCID
  Handler = {"echo", "fail", "callback"}
  NoHandler = "none"
  registers <- MCregisters
  InitialCommands <- MCCommands
  Traffic <- MCTraffic
  MaxFrames = 2
INVARIANTS TypeOK HandedIntact AnswersIntact
PROPERTIES HandlersStable EverybodyFinishes
