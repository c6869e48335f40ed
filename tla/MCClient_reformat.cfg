\* set_pixel_format cannot allocate the framebuffer it announces.
SPECIFICATION Spec
CONSTANTS
  NULL = NULL
  Blocks = {b1, b2}
  Dims = {0, 1, 2}
  Formats = {8, 16, 24}
  MaxRects = 2
  MaxConnects = 1
  Fallible <- AllSites
  CallbackSets <- OwnBuffer
  Closing <- Final
  Reformatting <- AnyEvent
INVARIANTS FramebufferBacked
