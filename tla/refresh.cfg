\* One credential, the loop and one worker, with results, refreshes and
\* removals from outside.
SPECIFICATION FairSpec
CONSTANTS
  Auths = {a1}
  WithExecutor = {a1}
  Workers = {w1}
  None = None
  JobBuffer = 1
  Lifetime = 1
  Interval = 1
  PendingPause = 1
  FailurePause = 1
  IdlePause = 1
  MayUnauthorize = TRUE
  MaxNow = 1
  MaxChanges = 2
INVARIANTS
  MarksAreSeen
  NobodyForgotten
PROPERTIES
  DueIsHandled
CHECK_DEADLOCK FALSE
