\* The application disconnects in the middle of an update.
SPECIFICATION Spec
CONSTANTS
  NULL = NULL
  Blocks = {b1, b2}
  Dims = {0, 1, 2}
  Formats = {8, 16, 24}
  MaxRects = 2
  MaxConnects = 1
  Fallible <- Absorbed
  CallbackSets <- OwnBuffer
  Closing <- AnyEvent
  Reformatting <- AnyEvent
INVARIANTS TransportUsable
