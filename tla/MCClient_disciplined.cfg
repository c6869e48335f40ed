\* An application that disconnects only where a message is finished.
SPECIFICATION FairSpec
CONSTANTS
  NULL = NULL
  Blocks = {b1, b2}
  Dims = {0, 1, 2}
  Formats = {8, 16, 24}
  MaxRects = 2
  MaxConnects = 1
  Fallible <- Absorbed
  CallbackSets <- Installed
  Closing <- Final
  Reformatting <- AnyEvent
INVARIANTS TypeOK NoLeak FramebufferBacked LastPictureBacked NoOverrun TransportUsable
PROPERTIES SessionSpec RunReturns ErrorEndsSession
