\* One connection, several requests, reads cut anywhere; a fair kernel.
CONSTANTS
  Clients = {c1}
  Listener = listener
  Chunk = 2
  RequestLimit = 7
  SizeModulus = 1000
  HeaderSize = 3
  MaxEvents = 1
  Spurious = FALSE
  Garbage = {0}
  Traffic <- MixedTraffic
  Configs <- MixedAnswers
SPECIFICATION FairSpec
INVARIANTS
  RequestBoundary
  FramingKept
PROPERTIES
  Served
  Reaped
CHECK_DEADLOCK FALSE
