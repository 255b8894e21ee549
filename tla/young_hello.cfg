SPECIFICATION Spec
CONSTANTS
  u1 = u1
  Callers = {u1}
  Handlers <- MCHandlers
  SessionId = 7
  Word = 1000
  Window = 60
  Skew = 0
  ErrHandled = TRUE
  MaxCalls = 1
  MaxAge = 1
  MaxRepeats = 0
  MaxRefused = 0
INVARIANTS YoungHelloAccepted
CHECK_DEADLOCK FALSE
