\* A file and a kernel that takes a part of a send.
CONSTANTS
  Chunk = 3
  RequestLimit = 4
  SizeModulus = 1000
  Kinds = {"file"}
  Totals <- Sizes
  Scripts <- Terminated
  Sends <- AnyShort
SPECIFICATION Spec
INVARIANT
  Complete
CHECK_DEADLOCK FALSE
