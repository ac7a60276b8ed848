SPECIFICATION FairSpec
CONSTANTS
  Tasks = 4
  Concurrency = 1
  TaskBuffer = 1
  Fatal = {3}
INVARIANTS DroppedOnlyOnStopOrPanic SubmittedIsComputed
PROPERTIES JobsSpec EveryTaskSettled LoopsEnd DrainsWithinBuffer
CHECK_DEADLOCK FALSE
