\* One connection, requests with every uri of up to four pieces, cut anywhere.
CONSTANTS
  SizeModulus = 128
  Byte <- Bytes
  Requests <- AllRequests
  Answers <- AllAnswers
  BufferSize = 12
  RequestLimit = 50
  Reads = {1, 2, 3, 7, 13, 40}
SPECIFICATION Spec
INVARIANTS
  Contained
  RequestsTaken
  ResourceMeant
  LengthRead
  RedirectEnds
  ResponseFramed
  ConnectionAgrees
  ScanInBounds
CHECK_DEADLOCK FALSE
