\* A connect that fails after ServerInit is retried on the same client.
SPECIFICATION Spec
CONSTANTS
  NULL = NULL
  Blocks = {b1, b2, b3}
  Dims = {0, 1, 2}
  Formats = {8, 16, 24}
  MaxRects = 2
  MaxConnects = 2
  Fallible <- NoSite
  CallbackSets <- OwnBuffer
  Closing <- Final
  Reformatting <- AnyEvent
INVARIANTS NoLeak
