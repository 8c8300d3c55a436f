\* A GET that is answered by a script.
CONSTANTS
  Clients = {c1}
  Listener = listener
  Chunk = 3
  RequestLimit = 8
  SizeModulus = 1000
  HeaderSize = 1
  MaxEvents = 1
  Spurious = FALSE
  Garbage = {0}
  Traffic <- ScriptGet
  Configs <- OnlyScript
SPECIFICATION Spec
INVARIANT
  ScriptReleased
CHECK_DEADLOCK FALSE
