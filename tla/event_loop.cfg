\* Two connections that interleave in the loop.
CONSTANTS
  Clients = {c1, c2}
  Listener = listener
  Chunk = 4
  RequestLimit = 6
  SizeModulus = 1000
  HeaderSize = 1
  MaxEvents = 2
  Spurious = FALSE
  Garbage = {0}
  Traffic <- LoopTraffic
  Configs <- LoopAnswers
SPECIFICATION Spec
SYMMETRY Symmetry
INVARIANTS
  EpollInSync
  QueueExact
  BatchAlive
PROPERTY
  ImplementsService
CHECK_DEADLOCK FALSE
