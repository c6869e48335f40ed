\* The version chosen for a server that announces an unknown one.
SPECIFICATION Spec
CONSTANTS
  Majors = {3, 4, 1000}
  Minors = {3, 5, 7, 8, 14}
  Types = {1, 2, 16}
  NameLengths = {0, 2, 3, 4, 5, 6, 8}
  NameMax = 4
  Chunk = 2
  NoMemory = TRUE
INVARIANT UnknownIsOldest
