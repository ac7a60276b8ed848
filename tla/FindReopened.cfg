SPECIFICATION Spec
ACTION_CONSTRAINT BoundedStep
CONSTANTS
  Tasks = 2
  Worker = {w1, w2}
  NoWorker = NoWorker
  Capacity = 1
  MaxRetries = 2
  Thread = {poll}
  Handler = {h1}
  BatchSize = 2
  Job = {1, 2}
  BufferSize = 1
  MaxSends = 1
  MaxFaults = 1
  RetryBound = 3
  CountBound = 3
PROPERTY CompletedIsNotReopened
CHECK_DEADLOCK FALSE
