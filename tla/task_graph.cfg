\* Up to three clients in the queue, two of which share a ClientInterface.
CONSTANTS
  c1 = c1
  c2 = c2
  c3 = c3
  shared = shared
  own = own
  Clients = {c1, c2, c3}
  Queues <- SomeQueues
  Interfaces = {shared, own}
  Interface <- TwoShare
  None = None
SPECIFICATION FairSpec
INVARIANTS
  TypeOK
  SerialAlone
  OwnAnswer
PROPERTIES
  ImplementsOffload
  Returns
CHECK_DEADLOCK FALSE
