SPECIFICATION FairSpec
ACTION_CONSTRAINT LeakBounded
CONSTANTS
  Tasks = 1
  Worker = {w1, w2}
  NoWorker = NoWorker
  Capacity = 1
  MaxRetries = 1
  Thread = {poll}
  Handler = {h1, h2}
  BatchSize = 2
  Job = {1, 2}
  BufferSize = 1
  MaxSends = 2
  MaxFaults = 1
  RetryBound = 1
  CountBound = 2
PROPERTIES JobsSpec AttemptEnds StoreSpec
CHECK_DEADLOCK FALSE
