\* Two nodes and two faults.
CONSTANTS
  a = a
  b = b
  c = c
  Nodes = {a, b}
  MaxLinks = 1
  OpenMax = 2
  Ids = {1, 2, 3, 4, 5, 6, 7, 8, 9, 10, 11, 12, 13, 14, 15, 16, 17, 18}
  Air = 6
  MaxFaults = 2
  MaxInAir = 12
SPECIFICATION FairSpec
INVARIANTS
  MpmInv
PROPERTIES
  Peered
\* Peered nodes are silent.
CHECK_DEADLOCK FALSE
