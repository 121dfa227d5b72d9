\* Three nodes with room for one link each, and one fault.
\* Two originators that share a client, two rows for three announced addresses; numbers wrap at 3.
CONSTANTS
  a = a
  b = b
  c = c
  Nodes = {a, b, c}
  MaxLinks = 1
  OpenMax = 1
  Ids = {1, 2, 3, 4, 5, 6, 7, 8, 9, 10, 11, 12, 13, 14, 15, 16, 17, 18}
  Air = 4
  MaxFaults = 1
  MaxInAir = 4
  o1 = o1
  o2 = o2
  c1 = c1
  Origs = {o1, o2}
  Clients = {c1}
  Rows = 2
  TempMax = 1
  LocalMax = 2
  ChangesMax = 4
  Wrap = 3
  Resends = 1
  MaxEvents = 2
  MaxAnswers = 1
SPECIFICATION TablesSpec
SYMMETRY TablesSymmetry
CONSTRAINT FewInAir
INVARIANTS
  TTInv
  Exact
  OneExchange
PROPERTIES
  SettledStays
\* Peered nodes are silent, and events are bounded.
CHECK_DEADLOCK FALSE
