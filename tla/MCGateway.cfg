SPECIFICATION FairSpec
CONSTANTS
  Submissions = 2
  Content = {c1, c2}
  Query = {q1}
  None = None
  Error = Error
  MaxLockRetries = 1
  MaxChanges = 2
  MaxFaults = 2
INVARIANTS AnsweredTaskExists NoDuplicateAfterAnswer FreshStatus
PROPERTY EverySubmissionAnswered
CHECK_DEADLOCK FALSE
