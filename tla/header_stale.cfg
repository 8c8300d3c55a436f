\* Two requests on a connection, the first of them with a Referer.
CONSTANTS
  SizeModulus = 128
  Byte <- Bytes
  Requests <- StaleRequests
  Answers <- OnlyFile
  BufferSize = 12
  RequestLimit = 50
  Reads = {3, 7}
SPECIFICATION Spec
INVARIANTS
  RefererOwn
CHECK_DEADLOCK FALSE
