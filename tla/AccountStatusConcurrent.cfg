\* Two requests on the same row, two failures to a lock, a lock of one tick: every
\* pair of operations overlaps in every order, before and after the deadline; and
\* three failures, which is what two requests need.
SPECIFICATION Spec
CONSTANTS
  Requests = {r1, r2}
  MaxAttempts = 2
  LockDuration = 1
  MaxTime = 2
  MaxFailures = 3
SYMMETRY Symmetry
INVARIANTS
  TypeOK
  CountedFailuresHappened
  LockWithinBudget
  StreakFollowsProfile
PROPERTIES
  StaleLoginKeepsStatus
  LockHoldsUntilDeadline
  LocksKeepDeadlines
CHECK_DEADLOCK FALSE
