SPECIFICATION FairSpec
CONSTANTS
  Worker = {w1}
  Calls = 2
  Push = {p1, p2}
  Keepalive = Keepalive
  BufferSize = 1
INVARIANTS MappedIsOpen FailedIsNotDelivered
PROPERTIES PushEnds QueuedLeaves
CHECK_DEADLOCK FALSE
