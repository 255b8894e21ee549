SPECIFICATION ServerFairSpec
CONSTANTS
  p1 = p1
  p2 = p2
  c1 = c1
  Producers = {p1, p2}
  MaxPushes = 3
  Ids = {c1}
  NoId = NoId
INVARIANTS NoLostWakeup NoLostStop HandledInOrder MisuseAcrossThreads NothingLeaked LoopEndsForCause
PROPERTIES EveryCommandHandled StopEndsLoop
CHECK_DEADLOCK FALSE
