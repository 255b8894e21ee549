SPECIFICATION Spec
CONSTANTS
  u1 = u1
  Callers = {u1}
  Handlers <- MCHandlers
  SessionId = 7
  Word = 8
  Window = 2
  Skew = 0
  ErrHandled = TRUE
  MaxCalls = 1
  MaxAge = 0
  MaxRepeats = 1
  MaxRefused = 0
INVARIANTS ConfirmationCounts
CHECK_DEADLOCK FALSE
