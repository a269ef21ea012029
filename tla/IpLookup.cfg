SPECIFICATION Spec

CONSTANTS
  Width = 4
  Stride = 2
  Port = {p1, p2}
  NotAPort = NotAPort
  MaxLines = 3

INVARIANTS
  BasicIsLongest
  AdvancedIsLongest
  WrongWithinLevel

CHECK_DEADLOCK FALSE
