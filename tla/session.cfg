SPECIFICATION Spec
CONSTANTS
  u1 = u1
  Callers = {u1}
  Handlers <- MCOneCall
  SessionId = 7
  Word = 3
  Window = 0
  Skew = 0
  ErrHandled = TRUE
  MaxCalls = 3
  MaxAge = 1
  MaxRepeats = 1
  MaxRefused = 2
INVARIANTS TypeOK RejectionCause RepliesInOrder AnswersMatch RidsIdentify
PROPERTIES RequestsDelivered SilentOnceClosed
CHECK_DEADLOCK FALSE
