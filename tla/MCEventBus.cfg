SPECIFICATION FairSpec
CONSTANTS
  MaxTasks = 2
  Sub = {s1, s2}
  FirstSub = s1
  Capacity = 1
  BatchSize = 1
  MaxFaults = 1
INVARIANT CrashOnlyOnClose
PROPERTIES EventsInOrder EventsSuffice EveryTaskScheduled LoopsEnd
CHECK_DEADLOCK FALSE
