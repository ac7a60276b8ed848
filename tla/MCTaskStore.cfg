SPECIFICATION Spec
ACTION_CONSTRAINT BoundedStep
CONSTANTS
  Task = {t1, t2}
  Worker = {w1, w2}
  NoWorker = NoWorker
  Session = {s1, s2}
  MaxRetries = 1
  RetryBound = 2
  CountBound = 2
SYMMETRY Symmetric
INVARIANTS TypeOK RowsValid HeldTaskHasOpenRow FailedOnlyWhenExhausted
PROPERTY LeaseSpec
