SPECIFICATION AgeSpec

CONSTANTS
  Origin = origin
  Peer = {p, q}
  LsuInt = 6
  DbTimeout = 8
  SeqMod = 4
  NoEntry = NoEntry
  MaxRun = 1
  MaxLoss = 1

INVARIANTS
  KnownAgain
  TableFollows
