SPECIFICATION FairSpec
CONSTANTS
  owner = owner
  other = other
  sender = sender
  Owner = owner
  Callers = {owner, other}
  Senders = {sender}
  Epoll = Epoll
INVARIANTS DescriptorsOutliveLoop OnceUnlessOverlapped NobodyLeftBehind TerminationCause
PROPERTIES CloseEnds
CHECK_DEADLOCK FALSE
