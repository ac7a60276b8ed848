SPECIFICATION FairSpec
ACTION_CONSTRAINT LeakBounded
CONSTANTS
  Tasks = 2
  Worker = {w1}
  NoWorker = NoWorker
  Capacity = 1
  MaxRetries = 1
  Thread = {event, poll}
  Handler = {h1}
  BatchSize = 2
  Job = {1, 2}
  BufferSize = 1
  MaxSends = 1
  MaxFaults = 0
  RetryBound = 1
  CountBound = 2
PROPERTY EveryTaskSettled
CHECK_DEADLOCK FALSE
