SPECIFICATION FairSpec
CONSTANTS
  Node = {n1, n2, n3}
  Serving = {n1, n2}
  NoWorker = NoWorker
  Task = {t1}
  Capacity = 1
  MaxFaults = 2
INVARIANT ExclusiveExecution
PROPERTIES LeaseSpec PendingIsTaken AttemptEnds
CHECK_DEADLOCK FALSE
