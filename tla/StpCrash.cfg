SPECIFICATION FairCrashSpec

CONSTANTS
  Switch <- TriangleSwitch
  Port <- TrianglePort
  Peer <- TrianglePeer
  Dist <- TriangleDist
  NoPort = NoPort
  QueueCap = 1
  MaxCrash = 1

INVARIANTS
  SwitchesConsistent

PROPERTIES
  BeliefOnlyImproves
  Reconverges
  LostRootFallsSilent
