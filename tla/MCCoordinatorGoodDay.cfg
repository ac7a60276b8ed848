SPECIFICATION Spec
ACTION_CONSTRAINT BoundedStep
CONSTANTS
  Tasks = 2
  Worker = {w1, w2}
  NoWorker = NoWorker
  Capacity = 1
  MaxRetries = 1
  Thread = {event, poll}
  Handler = {h1}
  BatchSize = 1
  Job = {1, 2}
  BufferSize = 1
  MaxSends = 1
  MaxFaults = 0
  RetryBound = 1
  CountBound = 2
SYMMETRY Symmetric
INVARIANTS ExclusiveExecution CompletionNeverRefused SlotsComeBack AckedIsRecorded
CHECK_DEADLOCK FALSE
