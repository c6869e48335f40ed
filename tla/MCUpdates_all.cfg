\* Applications that ask again after each update, with resizes and format changes.
SPECIFICATION FairSpec
CONSTANTS
  NULL = NULL
  Sizes <- Geometry
  Colours = {c1, c2}
  ServerFormat <- Wide
  Configs <- Created
  Applications <- Apps
  CursorShapes <- Shapes
  Buffer = 2
  MaxChanges = 2
INVARIANTS TypeOK InStep NeverRefused FinishedShows FormatsAgree NoStandstill
PROPERTY CatchesUp
