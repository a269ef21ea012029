SPECIFICATION Spec

CONSTANTS
  Switch <- RingSwitch
  Port <- RingPort
  Peer <- RingPeer
  Dist <- RingDist
  NoPort = NoPort
  QueueCap = 1

INVARIANTS
  DistanceSound
  RootPortSound
  HelloIffRoot
  SegmentServed
  RolesFollowVectors
  Inductive

PROPERTIES
  ElectionSpec

