SPECIFICATION FairSpec
CONSTANTS
  Task = {t1, t2}
  NoTask = NoTask
  Proc = {p1, p2}
  NoProc = NoProc
  MaxLeaves = 6
  MaxMixed = 2
INVARIANTS OneKeyPairPerCircuit ProvedRootIsReference UnsatisfiedExactly
PROPERTY EveryTaskEnds
CHECK_DEADLOCK FALSE
