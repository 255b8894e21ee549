SPECIFICATION FairSpec
CONSTANTS
  BodyHeader = 1
  Overhead = 1
  PathWord = 3
  MaxFrameSize = 7
  SocketSize = 8
  RecvSize = 3
  Shapes <- MCShapes
  Junk <- MCJunk
  MaxFrames = 3
INVARIANTS SoundInOrder BufferBounded ClosedForCause
PROPERTIES SoundHandled
CHECK_DEADLOCK FALSE
