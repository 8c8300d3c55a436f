\* Two connections with a script each, pipes that hold one unit.
CONSTANTS
  Clients = {c1, c2}
  Shapes <- SomeShapes
  InCap = 1
  OutCap = 1
  Limits = {1, 2}
  Nobody = Nobody
SPECIFICATION FairSpec
INVARIANTS
  InputWhole
  ResponseWhole
  PipesClosed
PROPERTIES
  OwnKill
  WriteReturns
  Released
CHECK_DEADLOCK FALSE
