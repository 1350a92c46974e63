\* A repeated request and one sent beside it, three failures.
CONSTANTS
  w1 = w1
  w2 = w2
  x = x
  y = y
  Nobody = Nobody
  Workflows <- TwoWorkflows
  First = w1
  Writes <- TwoWrites
  MaxDoubles = 1
  MaxFailures = 3
  CrashWhilePromoting = FALSE
SPECIFICATION FairSpec
INVARIANTS
  NoWriteLost
  NoDivergence
  OnePrimaryAfterRejoin
PROPERTIES
  RejoinedIsStandby
  HandoverCompletes
CHECK_DEADLOCK FALSE
