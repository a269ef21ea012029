SPECIFICATION Spec

CONSTANTS
  Router <- MCRouter
  Network <- TopoNetwork
  Attached <- TopoAttached
  Active <- MCRouter
  Cables <- RingOnly
  Lists <- CompleteLists
  LinkNetwork <- MCLinkNetwork
  None = None
  Direct = Direct
  NoRoute = NoRoute
  BigInt = 99
  MayFail = FALSE

INVARIANTS
  NetworksReached
