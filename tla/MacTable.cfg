SPECIFICATION FairSpec

CONSTANTS
  Iface = {i1, i2, i3}
  Station = {a, b}
  Unheard = {bcast}
  None = None
  Timeout = 2

INVARIANTS
  MacTypeOK
  EntryIsLastHeard
  SentWhereHeard

PROPERTIES
  RemovedOnlyWhenOld
  SilentForgotten
