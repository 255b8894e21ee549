SPECIFICATION Spec
CONSTANTS
  f1 = f1
  f2 = f2
  Fds = {f1, f2}
  CmdFd = CmdFd
  ListenFd = ListenFd
  NoFd = NoFd
  MaxEvents = 3
  MaxConnections = 1
  ErrHandled = FALSE
  MaxPeers = 3
  MaxCommands = 1
INVARIANTS SimultaneousConnections
CHECK_DEADLOCK FALSE
