SPECIFICATION FairSpec
CONSTANTS
  f1 = f1
  f2 = f2
  Fds = {f1, f2}
  CmdFd = CmdFd
  ListenFd = ListenFd
  NoFd = NoFd
  MaxEvents = 3
  MaxConnections = 1
  ErrHandled = TRUE
  MaxPeers = 2
  MaxCommands = 2
INVARIANTS Reachable OwnConnection
PROPERTIES DeletedForCause HangupNoticed
CHECK_DEADLOCK FALSE
