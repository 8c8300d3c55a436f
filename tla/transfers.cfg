\* Every kind of stream, under the kernel it bears.
CONSTANTS
  Chunk = 3
  RequestLimit = 4
  SizeModulus = 1000
  Kinds <- AllKinds
  Totals <- Sizes
  Scripts <- Terminated
  Sends <- AsBorne
SPECIFICATION FairSpec
INVARIANTS
  TypeOK
  SuccessReported
PROPERTIES
  ImplementsDelivery
  Ends
CHECK_DEADLOCK FALSE
