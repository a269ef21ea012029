SPECIFICATION Spec

CONSTANTS
  Router <- MCRouter
  Network <- MCNetwork
  Attached <- MCAttached
  Active = {1}
  Cables <- AllCables
  Lists <- AllLists
  LinkNetwork <- MCLinkNetwork
  None = None
  Direct = Direct
  NoRoute = NoRoute
  BigInt = 99
  MayFail = TRUE

INVARIANTS
  VisitedFinal
  SoleNetworksShortest
  NoStaleRoutes
