SPECIFICATION FairLockSpec

CONSTANTS
  MaxNbr = 2
  MaxPending = 1

INVARIANTS
  NoCircularWait
  PointersLive

PROPERTIES
  RoundsEnd
