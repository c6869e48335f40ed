\* What a resize leaves of the old picture.
SPECIFICATION Spec
CONSTANTS
  NULL = NULL
  Sizes <- Geometry
  Colours = {c1, c2}
  ServerFormat <- Wide
  Configs <- Created
  Applications <- ExampleOnly
  CursorShapes <- Shapes
  Buffer = 2
  MaxChanges = 2
PROPERTY KeepsUpperLeft
