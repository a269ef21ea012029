SPECIFICATION HttpFairSpec

CONSTANTS
  Client = {c1, c2}
  Request <- MCRequest
  Uri <- MCUri
  Cut <- MCCut
  Byte <- MCByte
  Content <- MCContent
  Room <- MCRoom
  Nul = Nul
  NoRange = NoRange
  OtherUnit = OtherUnit
  Empty = Empty
  NoClient = NoClient
  NoReply = NoReply
  B1 = B1
  B2 = B2
  B3 = B3
  c1 = c1
  c2 = c2

INVARIANT AnswerRight
PROPERTY EveryClientServed

CHECK_DEADLOCK FALSE
