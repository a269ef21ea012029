SPECIFICATION MospfSpec

CONSTANTS
  Router <- MCRouter
  Cables <- Triangle
  MaxTtl = 2
  NoEntry = NoEntry
  MaxSend <- MCMaxSend
  MaxTrouble = 1

INVARIANTS
  MospfTypeOK
  EntriesGenuine
  ChangesAnnounced
  FloodCovers

PROPERTIES
  FloodingSpec

CHECK_DEADLOCK FALSE
