\* A POST that is refused on a connection that is kept.
CONSTANTS
  Clients = {c1}
  Listener = listener
  Chunk = 3
  RequestLimit = 8
  SizeModulus = 1000
  HeaderSize = 1
  MaxEvents = 1
  Spurious = FALSE
  Garbage = {0}
  Traffic <- RefusedPost
  Configs <- OnlyFile
SPECIFICATION Spec
INVARIANT
  RequestBoundary
CHECK_DEADLOCK FALSE
