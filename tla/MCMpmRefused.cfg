\* The holdoff of a peer that said it is full.
CONSTANTS
  a = a
  b = b
  c = c
  Nodes = {a, b}
  MaxLinks = 1
  OpenMax = 2
  Ids = {1, 2, 3, 4, 5, 6, 7, 8, 9, 10, 11, 12, 13, 14, 15, 16, 17, 18}
  Air = 6
  MaxFaults = 2
  MaxInAir = 12
SPECIFICATION Spec
PROPERTIES
  NotAsked
\* Peered nodes are silent.
CHECK_DEADLOCK FALSE
