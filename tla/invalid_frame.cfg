SPECIFICATION Spec
CONSTANTS
  owner = owner
  sender = sender
  Owner = owner
  Callers = {owner}
  Senders = {sender}
  Epoll = Epoll
INVARIANTS InvalidFrameCloses
CHECK_DEADLOCK FALSE
