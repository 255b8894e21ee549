SPECIFICATION FairSpec
CONSTANTS
  u1 = u1
  u2 = u2
  Callers = {u1, u2}
  Handlers <- MCHandlers
  SessionId = 7
  Word = 4
  Window = 1
  Skew = 0
  ErrHandled = FALSE
  MaxCalls = 2
  MaxAge = 1
  MaxRepeats = 0
  MaxRefused = 1
INVARIANTS RepliesNumbered
PROPERTIES ServerEndsForCause HandshakeEnds RequestsHandled AnswersArrive CloseReturns
CHECK_DEADLOCK FALSE
