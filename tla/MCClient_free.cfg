\* Every allocation may fail, any callback may disconnect, and a failed connect is retried.
SPECIFICATION Spec
CONSTANTS
  NULL = NULL
  Blocks = {b1, b2, b3}
  Dims = {0, 1, 2}
  Formats = {8, 16, 24}
  MaxRects = 2
  MaxConnects = 2
  Fallible <- AllSites
  CallbackSets <- Installed
  Closing <- AnyEvent
  Reformatting <- AnyEvent
INVARIANTS NoDangling PlatformBalanced GeometryMatches TransportMatchesState LossReportedOnce ThreadMatchesState
