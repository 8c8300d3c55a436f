\* One connection under a kernel that cuts, refuses and fails every call.
CONSTANTS
  Clients = {c1}
  Listener = listener
  Chunk = 2
  RequestLimit = 4
  SizeModulus = 1000
  HeaderSize = 3
  MaxEvents = 1
  Spurious = TRUE
  Traffic <- AllTraffic
  Configs <- AllAnswers
  Garbage = {0, 3}
SPECIFICATION Spec
INVARIANTS
  TypeOK
  StreamReady
  IdleClean
  Conservation
  ErasesInside
CHECK_DEADLOCK FALSE
