\* Two connections that compete for the loop.
CONSTANTS
  Clients = {c1, c2}
  Listener = listener
  Chunk = 4
  RequestLimit = 7
  SizeModulus = 1000
  HeaderSize = 1
  MaxEvents = 1
  Spurious = FALSE
  Garbage = {0}
  Traffic <- TurnsTraffic
  Configs <- TurnsAnswers
SPECIFICATION FairSpec
PROPERTIES
  Served
  Reaped
CHECK_DEADLOCK FALSE
