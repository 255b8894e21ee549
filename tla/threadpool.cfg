SPECIFICATION FairSpec
CONSTANTS
  w1 = w1
  w2 = w2
  w3 = w3
  e1 = e1
  e2 = e2
  Workers = {w1, w2, w3}
  Enqueuers = {e1, e2}
  MaxTasks = 3
INVARIANTS WorkConserving DestroyedEmpty
PROPERTIES ImplementsExecutor EveryTaskRuns DestructorReturns
CHECK_DEADLOCK FALSE
