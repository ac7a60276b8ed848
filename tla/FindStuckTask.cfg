SPECIFICATION FairSpec
ACTION_CONSTRAINT LeakBounded
CONSTANTS
  Tasks = 1
  Worker = {w1}
  NoWorker = NoWorker
  Capacity = 1
  MaxRetries = 1
  Thread = {poll}
  Handler = {h1}
  BatchSize = 1
  Job = {1}
  BufferSize = 1
  MaxSends = 1
  MaxFaults = 1
  RetryBound = 2
  CountBound = 2
PROPERTY SettledDespiteFailures
CHECK_DEADLOCK FALSE
